---- MODULE Spec2Model ----
(***************************************************************************)
(* Model of the website import pipeline of iva-backend:                    *)
(*   - crawlWebsiteWithPlaywright (the crawl frontier), src/README.md      *)
(*   - crawlBusinessWebsite and the POST /import_from_web handler,         *)
(*     src/unnamed/part_007 and src/routes/vapi.js                         *)
(*   - applyImportedBusinessData, src/unnamed/part_007                     *)
(*                                                                         *)
(* A URL is a record [host, path, slash, frag]: path 0 is the root "/",    *)
(* slash says the pathname ends in "/", frag says the URL has a #fragment. *)
(* A string that is only searched for marker substrings (an error message) *)
(* is the set of the markers it contains.                                  *)
(***************************************************************************)
EXTENDS Integers, Sequences, FiniteSets, TLC

\* ------------------------------------------------------------------ bounds
\* paths 1..NPaths of the small site (path 0 is the root)
NPaths == 2
\* anchors on one page of the small site
MaxLinks == 2
\* maxPages option of the small crawls is 1..MaxPagesBound
MaxPagesBound == 2
\* pages of one crawl that fail (navigation, status, exception, insert)
MaxFailures == 3

\* ------------------------------------------------------- program constants
maxQueueSize == 400
maxLinksPerPage == 50
SitemapDefaultLimit == 200

NULL == "null"

\* ---------------------------------------------------------------- URLs
BaseHost == "base"

U(h, p) == [host |-> h, path |-> p, slash |-> FALSE, frag |-> FALSE]

\* a mutant of normalizeUrl that keeps the fragment
normalizeUrlKeepsFragment(url) ==
  [url EXCEPT !.slash = IF url.path # 0 THEN FALSE ELSE url.slash]

normalizeUrl(url) ==
  [url EXCEPT !.frag = FALSE,
              !.slash = IF url.path # 0 THEN FALSE ELSE url.slash]

\* excludePaths is modelled as the set of paths its patterns match
shouldExclude(url, excludePaths) == url.path \in excludePaths

Task(url, depth, fromPriority) ==
  [url |-> url, depth |-> depth, fromPriority |-> fromPriority]

\* enqueue() of the seeding phase, on the pair st = [queue, seen]
enqueue(st, url, depth, fromPriority, excludePaths) ==
  LET normalized == normalizeUrl(url) IN
  IF normalized \in st.seen \/ shouldExclude(normalized, excludePaths)
  THEN st
  ELSE [queue |-> Append(st.queue, Task(normalized, depth, fromPriority)),
        seen  |-> st.seen \cup {normalized}]

\* the seeding loops: enqueue for every URL of urls, in order. The list is
\* split in halves, and the state after the first half is computed before the
\* second half is begun, only to keep the evaluation shallow.
RECURSIVE enqueueAll(_, _, _, _, _)
enqueueAll(st, urls, depth, fromPriority, excludePaths) ==
  IF urls = <<>> THEN st
  ELSE IF Len(urls) = 1
  THEN enqueue(st, urls[1], depth, fromPriority, excludePaths)
  ELSE LET h == Len(urls) \div 2
           mid == enqueueAll(st, SubSeq(urls, 1, h), depth, fromPriority, excludePaths)
       IN IF Len(mid.queue) >= 0
          THEN enqueueAll(mid, SubSeq(urls, h + 1, Len(urls)), depth, fromPriority,
                          excludePaths)
          ELSE mid

stripWww(h) == IF h = "www.base" THEN "base" ELSE h

Take(s, n) == IF Len(s) <= n THEN s ELSE SubSeq(s, 1, n)

\* discoverUrlsFromSitemap: same host up to a leading "www.", not excluded,
\* cut to maxPages (200 when maxPages is 0)
discoverUrlsFromSitemap(locs, baseUrl, maxPages, excludePaths) ==
  LET normalized == SelectSeq(locs, LAMBDA u:
                       stripWww(u.host) = stripWww(baseUrl.host)
                       /\ u.path \notin excludePaths)
  IN Take(normalized, IF maxPages = 0 THEN SitemapDefaultLimit ELSE maxPages)

\* ------------------------------------------------------ link discovery
\* the page.$$eval callback: anchors are [url, prio] with the href already
\* resolved to an absolute URL; keeps same-host, non-excluded links and
\* strips fragment and trailing slash
evalAnchors(anchors, baseDomain, excludePaths) ==
  LET kept == SelectSeq(anchors, LAMBDA a:
                 a.url.host = baseDomain /\ a.url.path \notin excludePaths)
  IN [i \in 1..Len(kept) |->
        [href |-> [kept[i].url EXCEPT !.frag = FALSE,
                     !.slash = IF kept[i].url.path # 0 THEN FALSE
                               ELSE kept[i].url.slash],
         prio |-> kept[i].prio]]

\* the classification loop: drops excluded and visited links, splits the rest
classifyLinks(internalLinks, isPriority, vis, excludePaths) ==
  LET kept == SelectSeq(internalLinks, LAMBDA l:
                 ~shouldExclude(l.href, excludePaths)
                 /\ l.href \notin vis
                 /\ l.prio = isPriority)
  IN [i \in 1..Len(kept) |-> kept[i].href]

\* may one more link be queued: the queue cap, the per-page cap, the depth
canQueue(st, depth, maxDepth) ==
  /\ Len(st.queue) < maxQueueSize
  /\ st.addedCount < maxLinksPerPage
  /\ depth + 1 <= maxDepth

\* a priority link put at the back
putPriorityAtBack(q, t) == Append(q, t)

\* where a priority link is put: the front of the queue
putPriority(q, t) == <<t>> \o q

\* a normal link put at the front as well
putNormalAtFront(q, t) == <<t>> \o q

\* where a normal link is put: the back of the queue
putNormal(q, t) == Append(q, t)

\* one round of either add loop, on st = [queue, seen, addedCount, log]
addLink(st, link, depth, maxDepth, vis, page, isPriority) ==
  IF canQueue(st, depth, maxDepth) /\ link \notin vis /\ link \notin st.seen
  THEN [queue |-> IF isPriority
                  THEN putPriority(st.queue, Task(link, depth + 1, TRUE))
                  ELSE putNormal(st.queue, Task(link, depth + 1, FALSE)),
        seen |-> st.seen \cup {link},
        addedCount |-> st.addedCount + 1,
        log |-> st.log \cup {[url |-> link, page |-> page, prio |-> isPriority]}]
  ELSE st

\* either add loop: addLink for every link of links, in order (split in halves
\* as in enqueueAll)
RECURSIVE addLinks(_, _, _, _, _, _, _)
addLinks(st, links, depth, maxDepth, vis, page, isPriority) ==
  IF links = <<>> THEN st
  ELSE IF Len(links) = 1
  THEN addLink(st, links[1], depth, maxDepth, vis, page, isPriority)
  ELSE LET h == Len(links) \div 2
           mid == addLinks(st, SubSeq(links, 1, h), depth, maxDepth, vis, page,
                           isPriority)
       IN IF mid.addedCount >= 0
          THEN addLinks(mid, SubSeq(links, h + 1, Len(links)), depth, maxDepth, vis,
                        page, isPriority)
          ELSE mid

\* the whole link-discovery block of one stored page
discoverLinks(q, sn, lg, anchors, page, depth, c, vis) ==
  LET internalLinks == evalAnchors(anchors, c.baseUrl.host, c.excludePaths)
      priorityLinks == classifyLinks(internalLinks, TRUE, vis, c.excludePaths)
      normalLinks   == classifyLinks(internalLinks, FALSE, vis, c.excludePaths)
      st0 == [queue |-> q, seen |-> sn, addedCount |-> 0, log |-> lg]
      st1 == addLinks(st0, priorityLinks, depth, c.maxDepth, vis, page, TRUE)
  IN addLinks(st1, normalLinks, depth, c.maxDepth, vis, page, FALSE)

\* ------------------------------------------------------------- inputs
Deco(u) == [u EXCEPT !.slash = TRUE, !.frag = TRUE]

\* the raw URLs of the small site: every path plain, and path 1 with "/#frag"
RawSmall == {U(BaseHost, p) : p \in 0..NPaths} \cup {Deco(U(BaseHost, 1))}

\* an anchor is its href and whether its text or href matches a priority
\* pattern: page 1 is linked either way, every other URL as a normal link
Anchors ==
  [url : RawSmall \cup {U("other", 1)}, prio : {FALSE}]
    \cup {[url |-> U(BaseHost, 1), prio |-> TRUE]}

RECURSIVE SeqsUpTo(_, _)
SeqsUpTo(S, n) ==
  IF n = 0 THEN {<<>>}
  ELSE LET shorter == SeqsUpTo(S, n - 1)
       IN shorter \cup {Append(s, x) : s \in {t \in shorter : Len(t) = n - 1}, x \in S}

\* what the anchors of a page of the small site may be
SmallAnchorLists == SeqsUpTo(Anchors, MaxLinks)

\* the link farm: every page carries maxLinksPerPage + 1 fresh in-domain links,
\* every tenth of them priority
FarmAnchors(url) ==
  [i \in 1..(maxLinksPerPage + 1) |->
     [url |-> U(BaseHost, 1000 * (url.path + 1) + i), prio |-> (i % 10 = 0)]]

AnchorLists(c, url) ==
  IF c.site = "farm" THEN {FarmAnchors(url)} ELSE SmallAnchorLists

Range(n, from) == [i \in 1..n |-> U(BaseHost, from + i)]

SmallConfigs ==
  [baseUrl : {U(BaseHost, 0)},
   maxDepth : 0..2,
   maxPages : 1..MaxPagesBound,
   excludePaths : {{}, {NPaths}},
   forcedUrls : {<<>>, <<Deco(U(BaseHost, 1))>>, <<U(BaseHost, 0)>>},
   sitemapLocs : {<<>>, <<U(BaseHost, 1), U("www.base", NPaths)>>},
   site : {"small"}]

\* the markers an error text of the environment may contain
EnvMsgs == {{}, {"timeout"}, {"network"}}

\* ------------------------------------------------------------- state
VARIABLES
  cfg,              \* the options of this crawl and what the site serves
  pc,               \* where the import is
  queue, seen, visited, pagesCrawled,
  pages,            \* crawledPagesWithContent, the returned pages list
  crawledPages,     \* the kb_pages rows inserted
  bookingProviders,
  browser,          \* the crawl's browser: "none", "open", "closed"
  err,              \* the markers of the error thrown, if any
  renders,          \* the URLs passed to safeGoto, in order
  dequeued,         \* the URLs taken off the queue, in order
  discLog,          \* [url, page, prio] of every link queued by discovery
  failures,         \* pages that failed so far
  fbrowser,         \* the browser of the Fresha fallback
  response,         \* the error code of the HTTP response, "success", or NULL
  apc,              \* where applyImportedBusinessData is
  data,             \* the imported data it is given
  bizName,          \* businesses.name
  profile,          \* the business_profile row, or NULL
  before,           \* what was stored when it was first called
  services,         \* the services rows of the business, by slug
  hours,            \* the opening_hours rows of the business, by weekday
  round,            \* the first or the second application of data
  after1,           \* what was stored when the first application returned
  fn,               \* the function of the extraction evaluated, and whether it is done
  inp,              \* what it is given
  out               \* what it returned

crawlVars == <<queue, seen, visited, pagesCrawled, pages, crawledPages,
               bookingProviders, renders, dequeued, discLog, failures>>
applyVars == <<apc, data, bizName, profile, before, services, hours, round, after1>>
pureVars == <<fn, inp, out>>
vars == <<cfg, pc, crawlVars, browser, err, fbrowser, response, applyVars, pureVars>>

CrawlInit(configs, start) ==
  /\ cfg \in configs
  /\ pc = start
  /\ queue = <<>>
  /\ seen = {}
  /\ visited = {}
  /\ pagesCrawled = 0
  /\ pages = <<>>
  /\ crawledPages = <<>>
  /\ bookingProviders = {}
  /\ browser = "none"
  /\ err = {}
  /\ renders = <<>>
  /\ dequeued = <<>>
  /\ discLog = {}
  /\ failures = 0
  /\ fbrowser = "none"
  /\ response = NULL

ApplyIdle ==
  /\ apc = "idle"
  /\ data = NULL
  /\ bizName = NULL
  /\ profile = NULL
  /\ before = NULL
  /\ services = NULL
  /\ hours = NULL
  /\ round = 0
  /\ after1 = NULL

PureIdle ==
  /\ fn = "idle"
  /\ inp = NULL
  /\ out = NULL

Init == CrawlInit(SmallConfigs, "seed") /\ ApplyIdle /\ PureIdle

\* ------------------------------------------- crawlWebsiteWithPlaywright
\* seeding: base URL at depth 0, forced URLs at depth 1, sitemap URLs at depth 1
Seed ==
  /\ pc = "seed"
  /\ LET s0 == [queue |-> <<>>, seen |-> {}]
         s1 == enqueue(s0, cfg.baseUrl, 0, FALSE, cfg.excludePaths)
         s2 == enqueueAll(s1, cfg.forcedUrls, 1, TRUE, cfg.excludePaths)
         sitemapUrls == discoverUrlsFromSitemap(cfg.sitemapLocs, cfg.baseUrl,
                                                cfg.maxPages, cfg.excludePaths)
         s3 == enqueueAll(s2, sitemapUrls, 1, FALSE, cfg.excludePaths)
     IN /\ queue' = s3.queue
        /\ seen' = s3.seen
  /\ pc' = "launch"
  /\ UNCHANGED <<cfg, visited, pagesCrawled, pages, crawledPages, bookingProviders,
                 renders, dequeued, discLog, failures, browser, err, fbrowser, response, applyVars, pureVars>>

\* chromium.launch succeeds, bundled or with one of the fallback candidates
LaunchOk ==
  /\ pc = "launch"
  /\ browser' = "open"
  /\ pc' = "setup"
  /\ UNCHANGED <<cfg, crawlVars, err, fbrowser, response, applyVars, pureVars>>

\* the bundled launch fails with text msg and so does every candidate
LaunchFailed ==
  /\ pc = "launch"
  /\ \E msg \in EnvMsgs : err' = {"PLAYWRIGHT_MISSING"} \cup msg
  /\ pc' = "crawl_thrown"
  /\ UNCHANGED <<cfg, crawlVars, browser, fbrowser, response, applyVars, pureVars>>

\* newContext, newPage, the timeouts and the screenshots directory
SetupOk ==
  /\ pc = "setup"
  /\ pc' = "loop"
  /\ UNCHANGED <<cfg, crawlVars, browser, err, fbrowser, response, applyVars, pureVars>>

\* one of them throws: the function is left before its try block
SetupThrows ==
  /\ pc = "setup"
  /\ \E msg \in EnvMsgs : err' = msg
  /\ pc' = "crawl_thrown"
  /\ UNCHANGED <<cfg, crawlVars, browser, fbrowser, response, applyVars, pureVars>>

\* a loop that tests the queue only
LoopGuardQueueOnly == queue # <<>>

LoopGuard == queue # <<>> /\ pagesCrawled < cfg.maxPages

Skipped(t) == normalizeUrl(t.url) \in visited \/ t.depth > cfg.maxDepth

\* an iteration that ends at the first continue
SkipTask ==
  /\ pc = "loop" /\ LoopGuard
  /\ Skipped(Head(queue))
  /\ queue' = Tail(queue)
  /\ dequeued' = Append(dequeued, normalizeUrl(Head(queue).url))
  /\ UNCHANGED <<cfg, pc, seen, visited, pagesCrawled, pages, crawledPages,
                 bookingProviders, renders, discLog, failures, browser, err,
                 fbrowser, response, applyVars, pureVars>>

\* an iteration that gets as far as safeGoto
Rendering == pc = "loop" /\ LoopGuard /\ ~Skipped(Head(queue))

\* the URL of this iteration
Current == normalizeUrl(Head(queue).url)

\* what every rendering iteration does first
Visit ==
  /\ visited' = visited \cup {Current}
  /\ dequeued' = Append(dequeued, Current)
  /\ renders' = Append(renders, Current)

\* detectBookingProviders on the page's URL and HTML
Detect ==
  \E found \in SUBSET {"fresha"} : bookingProviders' = bookingProviders \cup found

\* a failed page counted like a stored one
afterFailureCounted(n) == n + 1

\* a stored page left out of the budget
afterStoredUncounted(n) == n

\* the budget counter after a page that failed
afterFailure(n) == n

\* the budget counter after a page that was stored
afterStored(n) == n + 1

\* safeGoto returns null: both strategies time out, or a non-timeout error
PageNavFailed ==
  /\ Rendering
  /\ failures < MaxFailures
  /\ Visit
  /\ queue' = Tail(queue)
  /\ failures' = failures + 1
  /\ pagesCrawled' = afterFailure(pagesCrawled)
  /\ UNCHANGED <<cfg, pc, seen, pages, crawledPages, bookingProviders, discLog,
                 browser, err, fbrowser, response, applyVars, pureVars>>

\* the response is not ok (a non-2xx status)
PageHttpError ==
  /\ Rendering
  /\ failures < MaxFailures
  /\ Visit
  /\ queue' = Tail(queue)
  /\ failures' = failures + 1
  /\ pagesCrawled' = afterFailure(pagesCrawled)
  /\ UNCHANGED <<cfg, pc, seen, pages, crawledPages, bookingProviders, discLog,
                 browser, err, fbrowser, response, applyVars, pureVars>>

\* an exception between the status check and the push to the pages list
\* (waitForTimeout, page.evaluate, cleanText), caught by the iteration's catch
PageThrows ==
  /\ Rendering
  /\ failures < MaxFailures
  /\ Visit
  /\ queue' = Tail(queue)
  /\ Detect
  /\ failures' = failures + 1
  /\ pagesCrawled' = afterFailure(pagesCrawled)
  /\ UNCHANGED <<cfg, pc, seen, pages, crawledPages, discLog,
                 browser, err, fbrowser, response, applyVars, pureVars>>

PageRecord(t) == [url |-> normalizeUrl(t.url), depth |-> t.depth]

\* the kb_pages insert returns an error (or rejects): the page has been pushed
\* to the pages list, it is not counted and its links are not discovered
PageInsertFailed ==
  /\ Rendering
  /\ failures < MaxFailures
  /\ Visit
  /\ queue' = Tail(queue)
  /\ Detect
  /\ pages' = Append(pages, PageRecord(Head(queue)))
  /\ failures' = failures + 1
  /\ pagesCrawled' = afterFailure(pagesCrawled)
  /\ UNCHANGED <<cfg, pc, seen, crawledPages, discLog,
                 browser, err, fbrowser, response, applyVars, pureVars>>

\* does a stored page at this depth have its links discovered
Discovers(depth, crawled) == depth < cfg.maxDepth /\ crawled < cfg.maxPages

\* the page is rendered and stored, and page.$$eval throws when its links are
\* extracted: the inner catch leaves no links to queue
PageLinksFailed ==
  /\ Rendering
  /\ Discovers(Head(queue).depth, afterStored(pagesCrawled))
  /\ Visit
  /\ queue' = Tail(queue)
  /\ Detect
  /\ pages' = Append(pages, PageRecord(Head(queue)))
  /\ crawledPages' = Append(crawledPages, Current)
  /\ pagesCrawled' = afterStored(pagesCrawled)
  /\ UNCHANGED <<cfg, pc, seen, discLog, failures, browser, err, fbrowser, response, applyVars, pureVars>>

\* the page is rendered and stored; its links are discovered when it is not at
\* the maximum depth and the budget is not used up
PageStored ==
  /\ Rendering
  /\ Visit
  /\ Detect
  /\ pages' = Append(pages, PageRecord(Head(queue)))
  /\ crawledPages' = Append(crawledPages, Current)
  /\ pagesCrawled' = afterStored(pagesCrawled)
  /\ \E anchors \in AnchorLists(cfg, Current) :
       LET t == Head(queue)
           st == IF Discovers(t.depth, pagesCrawled')
                 THEN discoverLinks(Tail(queue), seen, discLog, anchors, Current,
                                    t.depth, cfg, visited \cup {Current})
                 ELSE [queue |-> Tail(queue), seen |-> seen, log |-> discLog]
       IN /\ queue' = st.queue
          /\ seen' = st.seen
          /\ discLog' = st.log
  /\ UNCHANGED <<cfg, pc, failures, browser, err, fbrowser, response, applyVars, pureVars>>

\* the loop is left, the result returned and the finally block closes the browser
Finish ==
  /\ pc = "loop" /\ ~LoopGuard
  /\ pc' = "crawl_returned"
  /\ browser' = "closed"
  /\ UNCHANGED <<cfg, crawlVars, err, fbrowser, response, applyVars, pureVars>>

\* ------------------------------------------------- crawlBusinessWebsite
fetchWords == {"timeout", "network", "ECONNREFUSED", "ETIMEDOUT"}

\* the catch around the crawl: the message thrown on for crawl error errorMsg
crawlFailureMessage(errorMsg) ==
  IF errorMsg \cap fetchWords # {}
  THEN {"FETCH_FAILED"}
  ELSE {"FETCH_FAILED"} \cup errorMsg

ImportCrawlFailed ==
  /\ pc = "crawl_thrown"
  /\ err' = crawlFailureMessage(err)
  /\ pc' = "import_thrown"
  /\ UNCHANGED <<cfg, crawlVars, browser, fbrowser, response, applyVars, pureVars>>

\* steps 5 and 6 throw: the chunks cannot be loaded, there are none, the
\* extraction call fails or its answer does not parse
ExtractErrors == {{}, {"PARSE_FAILED"}, {"FETCH_FAILED"}}

ImportExtractThrows ==
  /\ pc = "crawl_returned"
  /\ \E m \in ExtractErrors : err' = m
  /\ pc' = "import_thrown"
  /\ UNCHANGED <<cfg, crawlVars, browser, fbrowser, response, applyVars, pureVars>>

\* the extraction goes through; hoursFound says whether any source gave hours
ImportExtract ==
  /\ pc = "crawl_returned"
  /\ pagesCrawled > 0
  /\ \E hoursFound \in BOOLEAN :
       pc' = IF ~hoursFound /\ "fresha" \in bookingProviders
             THEN "fresha" ELSE "import_returned"
  /\ UNCHANGED <<cfg, crawlVars, browser, err, fbrowser, response, applyVars, pureVars>>

\* extractOpeningHoursFromFreshaIfPossible: skipped in production, or no
\* Fresha URL in the pages
FreshaSkipped ==
  /\ pc = "fresha"
  /\ pc' = "import_returned"
  /\ UNCHANGED <<cfg, crawlVars, browser, err, fbrowser, response, applyVars, pureVars>>

\* chromium.launch throws, the catch returns no hours
FreshaLaunchFailed ==
  /\ pc = "fresha"
  /\ pc' = "import_returned"
  /\ UNCHANGED <<cfg, crawlVars, browser, err, fbrowser, response, applyVars, pureVars>>

\* the browser is launched and newPage, goto or waitForTimeout throws: the
\* catch returns no hours
FreshaPageFailed ==
  /\ pc = "fresha"
  /\ fbrowser' = "open"
  /\ pc' = "import_returned"
  /\ UNCHANGED <<cfg, crawlVars, browser, err, response, applyVars, pureVars>>

\* the browser is launched, the page read and the browser closed
FreshaScraped ==
  /\ pc = "fresha"
  /\ fbrowser' = "closed"
  /\ pc' = "import_returned"
  /\ UNCHANGED <<cfg, crawlVars, browser, err, response, applyVars, pureVars>>

\* ------------------------------------------------ POST /import_from_web
\* the error code of the response for the message of the error caught
errorCode(errorMessage) ==
  IF "PLAYWRIGHT_MISSING" \in errorMessage THEN "PLAYWRIGHT_MISSING"
  ELSE IF "INVALID_URL" \in errorMessage THEN "INVALID_URL"
  ELSE IF "FETCH_FAILED" \in errorMessage THEN "FETCH_FAILED"
  ELSE IF "PARSE_FAILED" \in errorMessage THEN "PARSE_FAILED"
  ELSE "CRAWL_ERROR"

RespondError ==
  /\ pc = "import_thrown"
  /\ response' = errorCode(err)
  /\ pc' = "responded"
  /\ UNCHANGED <<cfg, crawlVars, browser, err, fbrowser, applyVars, pureVars>>

\* the data is applied; the save may fail
RespondSaved ==
  /\ pc = "import_returned"
  /\ \E r \in {"success", "SAVE_ERROR"} : response' = r
  /\ pc' = "responded"
  /\ UNCHANGED <<cfg, crawlVars, browser, err, fbrowser, applyVars, pureVars>>

Next ==
  \/ Seed \/ LaunchOk \/ LaunchFailed \/ SetupOk \/ SetupThrows
  \/ SkipTask \/ PageNavFailed \/ PageHttpError \/ PageThrows
  \/ PageInsertFailed \/ PageLinksFailed \/ PageStored \/ Finish
  \/ ImportCrawlFailed \/ ImportExtractThrows \/ ImportExtract
  \/ FreshaSkipped \/ FreshaLaunchFailed \/ FreshaPageFailed \/ FreshaScraped
  \/ RespondError \/ RespondSaved

Spec == Init /\ [][Next]_vars

\* ------------------------------------------------------------ strings
\* A string value is [nul, pad, words]: its words in order, and whether white
\* space surrounds them. No words and no pad is the empty string; nul marks
\* null (or undefined) in place of a string.
Str(pad, words) == [nul |-> FALSE, pad |-> pad, words |-> words]

NullStr == [nul |-> TRUE, pad |-> FALSE, words |-> <<>>]

Empty == Str(FALSE, <<>>)
Blank == Str(TRUE, <<>>)

\* String.prototype.trim
trim(s) == [s EXCEPT !.pad = FALSE]

\* JavaScript truthiness of a string or null
truthy(v) == v # NullStr /\ v # Empty

\* v || null
orNull(v) == IF truthy(v) THEN v ELSE NullStr

\* the words of the model: [generic, upper, lower, len, token]
WordInfo(w) ==
  CASE w = "salon"    -> [generic |-> TRUE,  upper |-> FALSE, lower |-> TRUE, len |-> 5,
                          token |-> "salon"]
    [] w = "Cutegory" -> [generic |-> FALSE, upper |-> TRUE,  lower |-> TRUE, len |-> 8,
                          token |-> "cutegory"]
    [] w = "Bella"    -> [generic |-> FALSE, upper |-> TRUE,  lower |-> TRUE, len |-> 5,
                          token |-> "bella"]
    [] OTHER          -> [generic |-> FALSE, upper |-> FALSE, lower |-> TRUE, len |-> Len(w),
                          token |-> w]

WebsiteUrl == Str(FALSE, <<"https://cutegory.cz">>)

\* domainToken: the first label of the host, "" when the URL does not parse
domainToken(url) ==
  IF url # NullStr /\ url.words = <<"https://cutegory.cz">> THEN "cutegory" ELSE ""

Count(words, w) == Cardinality({i \in 1..Len(words) : words[i] = w})

RECURSIVE SumLen(_, _)
SumLen(words, kinds) ==
  IF kinds = {} THEN 0
  ELSE LET w == CHOOSE x \in kinds : TRUE
       IN Count(words, w) * WordInfo(w).len + SumLen(words, kinds \ {w})

\* n.length of the normalized name
nameLength(words) ==
  IF words = <<>> THEN 0
  ELSE SumLen(words, {words[i] : i \in 1..Len(words)}) + Len(words) - 1

EmptyNameScore == 0 - 1000

\* the score of a name that normalizes to nothing
emptyScore == EmptyNameScore

\* scoreBusinessName
scoreBusinessName(name, url) ==
  LET n == IF name = NullStr THEN <<>> ELSE name.words
      token == domainToken(url)
      idx == 1..Len(n)
  IN IF n = <<>> THEN emptyScore
     ELSE (IF token # "" /\ \E i \in idx : WordInfo(n[i]).token = token THEN 35 ELSE 0)
        + (IF nameLength(n) <= 25 THEN 10 ELSE 0)
        - (IF nameLength(n) > 60 THEN 25 ELSE 0)
        - 12 * Cardinality({i \in idx : WordInfo(n[i]).generic})
        + (IF (\E i \in idx : WordInfo(n[i]).lower) /\ (\E i \in idx : WordInfo(n[i]).upper)
           THEN 8 ELSE 0)
        - (IF Len(n) - 1 >= 4 THEN 10 ELSE 0)

isGenericBusinessName(name, url) == scoreBusinessName(name, url) < 5

\* ------------------------------------------- applyImportedBusinessData
\* the coalesce helper: the new value trimmed when it is not empty, else the
\* existing one
coalesce(newVal, existingVal) ==
  LET newTrimmed == IF newVal = NullStr THEN NullStr ELSE trim(newVal)
  IN IF truthy(newTrimmed) THEN newTrimmed ELSE existingVal

\* no row of business_profile: every existingProfile?.x reads undefined
NoRow ==
  [name |-> NullStr, address |-> NullStr, phone |-> NullStr, email |-> NullStr,
   website_url |-> NullStr]

Field(row, f) == row[f]

\* the name written to business_profile
nameToSave(importedName, existingRow, websiteForScoring) ==
  LET existingProfileName == orNull(Field(existingRow, "name"))
      importedProfileName == orNull(importedName)
  IN IF websiteForScoring # NullStr /\ importedProfileName # NullStr
     THEN IF existingProfileName = NullStr THEN importedProfileName
          ELSE IF isGenericBusinessName(existingProfileName, websiteForScoring)
                  /\ scoreBusinessName(importedProfileName, websiteForScoring)
                       > scoreBusinessName(existingProfileName, websiteForScoring)
               THEN importedProfileName
               ELSE existingProfileName
     ELSE coalesce(importedProfileName, existingProfileName)

\* the row upserted into business_profile
profileData(p, existingRow) ==
  [name        |-> nameToSave(p.name, existingRow, orNull(p.website)),
   address     |-> coalesce(p.address, Field(existingRow, "address")),
   phone       |-> coalesce(p.phone, Field(existingRow, "phone")),
   email       |-> coalesce(p.email, Field(existingRow, "email")),
   website_url |-> coalesce(p.website, Field(existingRow, "website_url"))]

\* does STEP 1 write businesses.name
shouldUpdateName(p, existingBusinessName) ==
  LET websiteForScoring == orNull(p.website)
      newName == IF p.name = NullStr THEN NullStr ELSE trim(p.name)
      existingName == IF existingBusinessName = NullStr THEN NullStr
                      ELSE trim(existingBusinessName)
  IN /\ truthy(newName)
     /\ newName # existingName
     /\ \/ ~truthy(existingName)
        \/ /\ websiteForScoring # NullStr
           /\ isGenericBusinessName(existingName, websiteForScoring)
           /\ scoreBusinessName(newName, websiteForScoring)
                > scoreBusinessName(existingName, websiteForScoring)

\* a service name is [text, n]: n is the number in a generated name, else 0
\* (the strings of the module are Latin-1: "strih" and "Sluzba" stand for the
\* words with a hacek)
SvcName(text, n) == [text |-> text, n |-> n]

\* a slug is [base, n] likewise; base "" and n 0 is the empty slug
Slug(base, n) == [base |-> base, n |-> n]

\* makeSlugFromName: lower case, no diacritics, no punctuation, "_" for spaces
makeSlugFromName(name) ==
  CASE name.text \in {"Pánský strih", "pánský strih"} -> Slug("pansky_strih", 0)
    [] name.text = "Barvení"       -> Slug("barveni", 0)
    [] name.text = "Sluzba z webu" -> Slug("sluzba_z_webu_", name.n)
    [] OTHER                       -> Slug("", 0)

NoService == [present |-> FALSE, name |-> SvcName(NULL, 0), description |-> NULL,
              is_bookable |-> FALSE]

\* the lookup map existingBySlug: the rows read, none when the read failed
existingBySlug(existingServices, loaded) ==
  IF loaded
  THEN {sl \in DOMAIN existingServices :
          existingServices[sl].present /\ sl # Slug("", 0)}
  ELSE {}

\* one element of rawServices: the row built for data.services[index]
rawService(s, index, existingServices, loaded) ==
  LET baseName == IF s.name \notin {NULL, ""} THEN SvcName(s.name, 0)
                  ELSE SvcName("Sluzba z webu", index)
      made == makeSlugFromName(baseName)
      slug == IF made # Slug("", 0) THEN made ELSE Slug("service-", index)
      preservedIsBookable ==
        IF slug \in existingBySlug(existingServices, loaded)
        THEN existingServices[slug].is_bookable ELSE FALSE
  IN [slug |-> slug,
      row |-> [present |-> TRUE, name |-> baseName, description |-> s.description,
               is_bookable |-> preservedIsBookable]]

\* the deduplicated payload: of the rows with one slug the last one
servicesPayload(list, existingServices, loaded) ==
  LET raw == [i \in 1..Len(list) |-> rawService(list[i], i, existingServices, loaded)]
      last(sl) == CHOOSE i \in 1..Len(raw) :
                    /\ raw[i].slug = sl
                    /\ \A j \in (i + 1)..Len(raw) : raw[j].slug # sl
  IN [sl \in {raw[i].slug : i \in 1..Len(raw)} |-> raw[last(sl)].row]

\* upsert on (business_id, slug): the payload's rows replace or are added
upsertServices(stored, payload) ==
  [sl \in DOMAIN stored \cup DOMAIN payload |->
     IF sl \in DOMAIN payload THEN payload[sl] ELSE stored[sl]]

NoHours == [present |-> FALSE, opens_at |-> NULL, closes_at |-> NULL]

\* JavaScript truthiness of a time string or null
hasTime(t) == t \notin {NULL, ""}

\* a filter that asks for opensAt only
validHoursOpensOnly(openingHours) ==
  SelectSeq(openingHours, LAMBDA oh : hasTime(oh.opensAt))

\* the filter of STEP 3: opensAt and closesAt are both there
validHours(openingHours) ==
  SelectSeq(openingHours, LAMBDA oh : hasTime(oh.opensAt) /\ hasTime(oh.closesAt))

\* upsert on (business_id, weekday) of the valid entries
upsertHours(stored, valid) ==
  [d \in DOMAIN stored |->
     IF \E i \in 1..Len(valid) : valid[i].weekday = d
     THEN LET i == CHOOSE k \in 1..Len(valid) : valid[k].weekday = d
          IN [present |-> TRUE, opens_at |-> valid[i].opensAt,
              closes_at |-> valid[i].closesAt]
     ELSE stored[d]]

\* STEP 1: businesses.name
ApplyBusinessName ==
  /\ apc = "name"
  /\ bizName' = IF shouldUpdateName(data.profile, bizName)
                THEN trim(data.profile.name) ELSE bizName
  /\ apc' = "profile"
  /\ UNCHANGED <<cfg, pc, crawlVars, pureVars, browser, err, fbrowser, response, data, profile,
                 before, services, hours, round, after1>>

\* the update of STEP 1 returns an error
ApplyBusinessNameFails ==
  /\ apc = "name"
  /\ shouldUpdateName(data.profile, bizName)
  /\ apc' = "thrown"
  /\ UNCHANGED <<cfg, pc, crawlVars, pureVars, browser, err, fbrowser, response, data, bizName,
                 profile, before, services, hours, round, after1>>

\* STEP 1b: the business_profile upsert
ApplyProfile ==
  /\ apc = "profile"
  /\ profile' = profileData(data.profile, profile)
  /\ apc' = "services"
  /\ UNCHANGED <<cfg, pc, crawlVars, pureVars, browser, err, fbrowser, response, data, bizName,
                 before, services, hours, round, after1>>

\* the upsert of STEP 1b returns an error
ApplyProfileFails ==
  /\ apc = "profile"
  /\ apc' = "thrown"
  /\ UNCHANGED <<cfg, pc, crawlVars, pureVars, browser, err, fbrowser, response, data, bizName,
                 profile, before, services, hours, round, after1>>

\* STEP 2 with no services in the data: nothing is read or written
ApplyNoServices ==
  /\ apc = "services"
  /\ data.services = <<>>
  /\ apc' = "hours"
  /\ UNCHANGED <<cfg, pc, crawlVars, pureVars, browser, err, fbrowser, response, data, bizName,
                 profile, before, services, hours, round, after1>>

\* STEP 2: the existing rows are read (the read may fail, which is only
\* logged), the payload is built and upserted
ApplyServices ==
  /\ apc = "services"
  /\ data.services # <<>>
  /\ \E loaded \in BOOLEAN :
       services' = upsertServices(services,
                                  servicesPayload(data.services, services, loaded))
  /\ apc' = "hours"
  /\ UNCHANGED <<cfg, pc, crawlVars, pureVars, browser, err, fbrowser, response, data, bizName,
                 profile, before, hours, round, after1>>

\* the upsert of STEP 2 returns an error
ApplyServicesFails ==
  /\ apc = "services"
  /\ data.services # <<>>
  /\ apc' = "thrown"
  /\ UNCHANGED <<cfg, pc, crawlVars, pureVars, browser, err, fbrowser, response, data, bizName,
                 profile, before, services, hours, round, after1>>

\* STEP 3: the valid opening hours are upserted, if there are any
ApplyHours ==
  /\ apc = "hours"
  /\ hours' = IF validHours(data.openingHours) # <<>>
              THEN upsertHours(hours, validHours(data.openingHours))
              ELSE hours
  /\ apc' = "done"
  /\ UNCHANGED <<cfg, pc, crawlVars, pureVars, browser, err, fbrowser, response, data, bizName,
                 profile, before, services, round, after1>>

\* the upsert of STEP 3 returns an error
ApplyHoursFails ==
  /\ apc = "hours"
  /\ validHours(data.openingHours) # <<>>
  /\ apc' = "thrown"
  /\ UNCHANGED <<cfg, pc, crawlVars, pureVars, browser, err, fbrowser, response, data, bizName,
                 profile, before, services, hours, round, after1>>

\* what applyImportedBusinessData has stored
Stored == [bizName |-> bizName, profile |-> profile, services |-> services,
           hours |-> hours]

\* the same data is imported again
ApplyAgain ==
  /\ apc = "done"
  /\ round = 1
  /\ after1' = Stored
  /\ round' = 2
  /\ apc' = "name"
  /\ UNCHANGED <<cfg, pc, crawlVars, pureVars, browser, err, fbrowser, response, data, bizName,
                 profile, before, services, hours>>

ApplyNext ==
  \/ ApplyBusinessName \/ ApplyBusinessNameFails
  \/ ApplyProfile \/ ApplyProfileFails
  \/ ApplyNoServices \/ ApplyServices \/ ApplyServicesFails
  \/ ApplyHours \/ ApplyHoursFails
  \/ ApplyAgain

\* the strings a field may hold
Repeat(w, n) == [i \in 1..n |-> w]

FieldValues == {NullStr, Blank, Str(TRUE, <<"a">>)}

\* the words of the longest stored name, all of them generic
ManyGenericWords == 85

NameValues ==
  {NullStr, Empty, Blank, Str(FALSE, <<"salon">>), Str(TRUE, <<"Bella">>),
   Str(FALSE, <<"Cutegory", "salon">>), Str(FALSE, Repeat("salon", ManyGenericWords))}

ImportedProfiles ==
  [name : NameValues, address : FieldValues, phone : {Empty, Str(FALSE, <<"a">>)},
   email : {NullStr, Blank}, website : {NullStr, Blank, WebsiteUrl}]

StoredProfiles ==
  {NoRow} \cup
  [name : NameValues, address : {NullStr, Str(FALSE, <<"b">>)}, phone : {Str(FALSE, <<"b">>)},
   email : {Str(FALSE, <<"b">>)}, website_url : {NullStr, WebsiteUrl}]

StoredBusinessNames == {NullStr, Str(FALSE, <<"salon">>), Str(TRUE, <<"Bella">>)}

Weekdays == {"mon", "tue"}

Hour(d, o, c) == [weekday |-> d, opensAt |-> o, closesAt |-> c]

\* the openingHours of the data: none, valid days, days that lack a time
ImportedHours ==
  {<<>>,
   <<Hour("mon", "09:00", "17:00")>>,
   <<Hour("mon", "09:00", NULL)>>,
   <<Hour("mon", "", "17:00"), Hour("tue", "10:00", "18:00")>>,
   <<Hour("mon", NULL, NULL), Hour("tue", "10:00", "")>>}

StoredHours ==
  {[d \in Weekdays |-> NoHours],
   [d \in Weekdays |-> [present |-> TRUE, opens_at |-> "08:00", closes_at |-> "16:00"]]}

\* services in the data of one import
MaxServices == 2

ImportedService ==
  [name : {"Pánský strih", "pánský strih", NULL},
   description : {NULL, "d2"}]

ImportedServices == SeqsUpTo(ImportedService, MaxServices)

\* every slug a row may have
Slugs ==
  {Slug("pansky_strih", 0), Slug("barveni", 0)}
    \cup {Slug("sluzba_z_webu_", i) : i \in 1..(MaxServices + 1)}

StoredRow(name, bookable) ==
  [present |-> TRUE, name |-> SvcName(name, 0), description |-> "d1",
   is_bookable |-> bookable]

\* the stored services: none, or the two services with either flag
StoredServices ==
  {[sl \in Slugs |-> NoService]} \cup
  {[sl \in Slugs |->
      IF sl = Slug("pansky_strih", 0) THEN StoredRow("Pánský strih", b1)
      ELSE IF sl = Slug("barveni", 0) THEN StoredRow("Barvení", b2)
      ELSE NoService] : b1, b2 \in BOOLEAN}

\* applyImportedBusinessData is called on a stored business
ApplyInitWith(profiles, servicesIn, hoursIn, bizNames, storedProfiles, storedServices, storedHours) ==
  /\ CrawlInit({CHOOSE c \in SmallConfigs : TRUE}, "apply")
  /\ apc = "name"
  /\ data \in [profile : profiles, services : servicesIn, openingHours : hoursIn]
  /\ bizName \in bizNames
  /\ profile \in storedProfiles
  /\ services \in storedServices
  /\ hours \in storedHours
  /\ before = Stored
  /\ round = 1
  /\ after1 = Stored
  /\ PureIdle

\* every profile, with no or one service and one list of hours
ApplyInit ==
  ApplyInitWith(ImportedProfiles,
                {<<>>, <<[name |-> "pánský strih", description |-> "d2"]>>},
                {<<Hour("mon", "09:00", "17:00")>>},
                StoredBusinessNames, StoredProfiles,
                {[sl \in Slugs |->
                    IF sl = Slug("pansky_strih", 0) THEN StoredRow("Pánský strih", TRUE)
                    ELSE NoService]},
                {[d \in Weekdays |-> NoHours]})

SpecApply == ApplyInit /\ [][ApplyNext]_vars

RowProfiles ==
  [name : {Str(FALSE, <<"Bella">>)}, address : {NullStr}, phone : {Empty},
   email : {NullStr}, website : {WebsiteUrl}]

\* every list of services and of hours, with one profile
ApplyRowsInit ==
  ApplyInitWith(RowProfiles, ImportedServices, ImportedHours,
                {Str(FALSE, <<"salon">>)}, {NoRow}, StoredServices, StoredHours)

SpecApplyRows == ApplyRowsInit /\ [][ApplyNext]_vars

\* the link farm of scenario 5, with no, many and too many forced URLs
FarmConfigs ==
  [baseUrl : {U(BaseHost, 0)},
   maxDepth : 0..2,
   maxPages : 1..MaxPagesBound,
   excludePaths : {{}},
   forcedUrls : {<<>>, Range(maxQueueSize - 20, 0), Range(maxQueueSize + 1, 0)},
   sitemapLocs : {<<>>},
   site : {"farm"}]

FarmInit == CrawlInit(FarmConfigs, "seed") /\ ApplyIdle /\ PureIdle

SpecFarm == FarmInit /\ [][Next]_vars

\* ------------------------------ crawlBusinessWebsite: the opening hours
\* the keys of weekdayMap, in its order
WeekdayOrder == <<"mon", "tue">>

NoEntry == [opens |-> NULL, closes |-> NULL]

\* an hours object is a function from the weekday keys to [opens, closes];
\* NULL stands for a time, or a whole day, that is not there
hoursArray(h) ==
  LET valid == SelectSeq(WeekdayOrder,
                         LAMBDA d : hasTime(h[d].opens) /\ hasTime(h[d].closes))
  IN [i \in 1..Len(valid) |->
        Hour(valid[i], h[valid[i]].opens, h[valid[i]].closes)]

\* validDays of an hours object
validDays(h) == Len(hoursArray(h))

\* finalOpeningHoursArray: the oracle's hours, then the JSON-LD hours when they
\* have a valid day, then the heuristic hours when there are any, then the
\* Fresha hours when nothing was found and Fresha was detected
finalOpeningHoursArray(llm, jsonLd, preExtractedHours, fresha) ==
  LET first == hoursArray(llm)
      second == IF validDays(jsonLd) > 0 THEN hoursArray(jsonLd) ELSE first
      third == IF preExtractedHours # [d \in DOMAIN preExtractedHours |-> NoEntry]
               THEN hoursArray(preExtractedHours) ELSE second
      fourth == IF third = <<>> /\ validDays(fresha) > 0
                THEN hoursArray(fresha) ELSE third
  IN fourth

\* step 7 of crawlBusinessWebsite for the hours
MergeHours ==
  /\ fn = "hours"
  /\ out' = finalOpeningHoursArray(inp.llm, inp.jsonLd, inp.pre, inp.fresha)
  /\ fn' = "hours:done"
  /\ UNCHANGED <<cfg, pc, crawlVars, browser, err, fbrowser, response, applyVars, inp>>

DayKeys == {WeekdayOrder[i] : i \in 1..Len(WeekdayOrder)}

\* hours objects whose days are valid or absent
ValidHoursOf(o, c) == [DayKeys -> {NoEntry, [opens |-> o, closes |-> c]}]

\* what the oracle may give: any day may lack a time
LlmHours == [DayKeys -> [opens : {NULL, "09:00"}, closes : {NULL, "17:00"}]]

\* what extractCzechOpeningHours gives: no object, or one with a valid day
HeuristicHours == ValidHoursOf("10:00", "18:00")

HoursInit ==
  /\ CrawlInit({CHOOSE c \in SmallConfigs : TRUE}, "extract")
  /\ ApplyIdle
  /\ fn = "hours"
  /\ inp \in [llm : LlmHours, jsonLd : ValidHoursOf("08:00", "16:00"),
              pre : HeuristicHours, fresha : ValidHoursOf("11:00", "19:00")]
  /\ out = <<>>

SpecHours == HoursInit /\ [][MergeHours]_vars

\* -------------------------------- crawlBusinessWebsite: the address
\* an address is [nul, len, generic]: null or a string of len characters
\* that is a generic one (a city, "Praha a Brno") or a street address
Addr(len, generic) == [nul |-> FALSE, len |-> len, generic |-> generic]

NoAddr == [nul |-> TRUE, len |-> 0, generic |-> FALSE]

\* JavaScript truthiness of an address
isAddr(a) == ~a.nul /\ a.len > 0

\* a || b
orElse(a, b) == IF isAddr(a) THEN a ELSE b

\* mergeContactData, the address
mergeContactAddress(deterministic, llm) == orElse(orElse(deterministic, llm), NoAddr)

\* the oracle's addresses shorter than this are taken for generic
GenericLlmLength == 20

\* finalAddress of crawlBusinessWebsite
finalAddress(deterministic, llm) ==
  LET merged == orElse(orElse(mergeContactAddress(deterministic, llm), llm), NoAddr)
  IN IF /\ isAddr(deterministic) /\ isAddr(llm)
        /\ llm.len < GenericLlmLength
        /\ deterministic.len > llm.len
     THEN deterministic
     ELSE merged

MergeAddress ==
  /\ fn = "address"
  /\ out' = finalAddress(inp.deterministic, inp.llm)
  /\ fn' = "address:done"
  /\ UNCHANGED <<cfg, pc, crawlVars, browser, err, fbrowser, response, applyVars, inp>>

\* null, "", cities and summaries (5, 12, 19 characters), street addresses
\* (19, 20, 36 characters)
Addresses ==
  {NoAddr, [nul |-> FALSE, len |-> 0, generic |-> FALSE]}
    \cup {Addr(n, TRUE) : n \in {5, 12, 19}}
    \cup {Addr(n, FALSE) : n \in {19, 20, 36}}

AddressInit ==
  /\ CrawlInit({CHOOSE c \in SmallConfigs : TRUE}, "extract")
  /\ ApplyIdle
  /\ fn = "address"
  /\ inp \in [deterministic : Addresses, llm : Addresses]
  /\ out = NoAddr

SpecAddress == AddressInit /\ [][MergeAddress]_vars

\* ------------------------------------------------- imported services
\* Services of the crawl: the price-list extractor (DOM), the services of the
\* oracle (LLM), their merge and cleanServices.  A numeric field is a number
\* or null; NoNumber stands for null (and undefined).  Names are the texts
\* below ("strih" and "Kc" stand for the words with a caron, module strings
\* being Latin-1); every table gives the result of the source's regular
\* expressions on these texts.
NoNumber == 0 - 1

parseDurationMinutes(text) ==
  CASE text = "(Délka: 30 min)"  -> 30
    [] text = "(Délka: 1,5 hod)" -> 90
    [] text = "0 min"            -> 0
    [] OTHER                     -> NoNumber

parsePriceRange(text) ==
  CASE text = "300 Kc"       -> [priceFrom |-> 300, priceTo |-> 300]
    [] text = "300 - 500 Kc" -> [priceFrom |-> 300, priceTo |-> 500]
    [] OTHER                 -> [priceFrom |-> NoNumber, priceTo |-> NoNumber]

\* the price-list extractor's own name normalisation
normalizeServiceName(raw) ==
  CASE raw = "Klasický pánský strih" -> "pánský strih"
    [] raw = "Pánský strih *"        -> "Pánský strih"
    [] raw = "Pánský  strih"         -> "Pánský strih"
    [] raw \in {"", " ", NULL}       -> ""
    [] OTHER                         -> raw

\* the row of one list item: <<>> when the item is skipped
listItemService(item) ==
  LET name            == normalizeServiceName(item.rawName)
      durationMinutes == parseDurationMinutes(item.durationText)
      price           == parsePriceRange(item.priceText)
  IN  IF name = "" THEN <<>>
      ELSE IF /\ durationMinutes \in {NoNumber, 0}
              /\ price.priceFrom = NoNumber
              /\ price.priceTo = NoNumber
      THEN <<>>
      ELSE <<[name |-> name, description |-> NULL,
              durationMinutes |-> durationMinutes,
              priceFrom |-> price.priceFrom, priceTo |-> price.priceTo]>>

RECURSIVE extractServicesFromPriceList(_)
extractServicesFromPriceList(items) ==
  IF items = <<>> THEN <<>>
  ELSE listItemService(Head(items)) \o extractServicesFromPriceList(Tail(items))

normalizeServiceNameForComparison(name) ==
  CASE name \in {"Pánský strih", "pánský strih", "Pánský  strih"} -> "pansky strih"
    [] name = "Pánský strih *"                   -> "pansky strih *"
    [] name = "Klasický pánský strih"            -> "klasicky pansky strih"
    [] name = "Barvení"                          -> "barveni"
    [] OTHER                                     -> ""

\* value || null of a number: 0 is falsy
numberOrNull(n) == IF n = 0 THEN NoNumber ELSE n

RECURSIVE llmServicesOf(_)
llmServicesOf(extracted) ==
  IF extracted = <<>> THEN <<>>
  ELSE LET service == Head(extracted)
       IN  (IF service.name \in {"", " ", NULL} THEN <<>>
            ELSE <<[name |-> service.name,
                    description |-> service.description,
                    durationMinutes |-> numberOrNull(service.duration_minutes),
                    priceFrom |-> numberOrNull(service.price_from),
                    priceTo |-> numberOrNull(service.price_to)]>>)
           \o llmServicesOf(Tail(extracted))

\* serviceMap.get(key): the position in the services array of the object the map holds,
\* 0 when it holds none.  The map is written for every oracle service in
\* turn (the last of a key stays) and for a DOM service only when its key is
\* new, so the object is the last oracle service of the key, else the one
\* DOM service pushed for it.
serviceMapGet(merged, nLlm, key) ==
  LET llm    == {i \in 1..nLlm :
                   normalizeServiceNameForComparison(merged[i].name) = key}
      pushed == {i \in (nLlm + 1)..Len(merged) :
                   normalizeServiceNameForComparison(merged[i].name) = key}
  IN  IF llm # {} THEN CHOOSE i \in llm : \A j \in llm : j <= i
      ELSE IF pushed # {} THEN CHOOSE i \in pushed : TRUE
      ELSE 0

domOverride(existingService, domService) ==
  [existingService EXCEPT
     !.durationMinutes = IF domService.durationMinutes # NoNumber
                         THEN domService.durationMinutes ELSE @,
     !.priceFrom = IF domService.priceFrom # NoNumber
                   THEN domService.priceFrom ELSE @,
     !.priceTo = IF domService.priceTo # NoNumber
                 THEN domService.priceTo ELSE @,
     !.description = IF domService.description # NULL
                     THEN domService.description ELSE @]

mergeDomService(merged, nLlm, domService) ==
  LET normalizedName == normalizeServiceNameForComparison(domService.name)
      i == serviceMapGet(merged, nLlm, normalizedName)
  IN  IF normalizedName = "" THEN merged
      ELSE IF i # 0
      THEN [merged EXCEPT ![i] = domOverride(@, domService)]
      ELSE Append(merged, domService)

RECURSIVE mergeDomServices(_, _, _)
mergeDomServices(merged, nLlm, domExtractedServices) ==
  IF domExtractedServices = <<>> THEN merged
  ELSE mergeDomServices(
         mergeDomService(merged, nLlm, Head(domExtractedServices)),
         nLlm, Tail(domExtractedServices))

mergedServices(llmServices, domExtractedServices) ==
  mergeDomServices(llmServices, Len(llmServices), domExtractedServices)

canonicalizeServiceName(name) ==
  CASE name = "Pánský strih *"    -> "Pánský strih"
    [] name = "Pánský  strih"     -> "Pánský strih"
    [] name \in {"", " ", NULL}   -> ""
    [] OTHER                      -> name

\* the variant without the header filter
hasNumericAlways(s) == TRUE

\* every number of the model is finite
hasNumeric(s) ==
  \/ s.durationMinutes # NoNumber
  \/ s.priceFrom # NoNumber
  \/ s.priceTo # NoNumber

numericScore(s) ==
  (IF s.durationMinutes # NoNumber THEN 1 ELSE 0)
  + (IF s.priceFrom # NoNumber THEN 1 ELSE 0)
  + (IF s.priceTo # NoNumber THEN 1 ELSE 0)

carryOver(winner, loser) ==
  [winner EXCEPT
     !.description = IF @ = NULL /\ loser.description \notin {NULL, ""}
                     THEN loser.description ELSE @,
     !.durationMinutes = IF @ = NoNumber THEN loser.durationMinutes ELSE @,
     !.priceFrom = IF @ = NoNumber THEN loser.priceFrom ELSE @,
     !.priceTo = IF @ = NoNumber THEN loser.priceTo ELSE @]

\* one turn of the loop of cleanServices; byName is the map in insertion order
cleanService(byName, s) ==
  LET name      == canonicalizeServiceName(s.name)
      candidate == [s EXCEPT !.name = name]
      key       == normalizeServiceNameForComparison(name)
      at        == {i \in 1..Len(byName) :
                      normalizeServiceNameForComparison(byName[i].name) = key}
  IN  IF name = "" THEN byName
      ELSE IF ~hasNumeric(candidate) THEN byName
      ELSE IF at = {} THEN Append(byName, candidate)
      ELSE LET i        == CHOOSE j \in at : TRUE
               existing == byName[i]
               winner   == IF numericScore(candidate) >= numericScore(existing)
                           THEN candidate ELSE existing
               loser    == IF numericScore(candidate) >= numericScore(existing)
                           THEN existing ELSE candidate
           IN  [byName EXCEPT ![i] = carryOver(winner, loser)]

RECURSIVE cleanInto(_, _)
cleanInto(byName, list) ==
  IF list = <<>> THEN byName
  ELSE cleanInto(cleanService(byName, Head(list)), Tail(list))

cleanServices(list) == cleanInto(<<>>, list)

\* the services of one crawl: inp holds the list items of the price-list
\* pages and the services the oracle returned
ImportServices ==
  /\ fn = "services"
  /\ LET dom == extractServicesFromPriceList(inp.items)
         llm == llmServicesOf(inp.extracted)
     IN  out' = [dom |-> dom, llm |-> llm,
                 services |-> cleanServices(mergedServices(llm, dom))]
  /\ fn' = "services:done"
  /\ UNCHANGED <<cfg, pc, crawlVars, browser, err, fbrowser, response, applyVars, inp>>

ListItem(rawName, durationText, priceText) ==
  [rawName |-> rawName, durationText |-> durationText, priceText |-> priceText]

ListItems ==
  { ListItem("Pánský strih", "", "300 Kc"),
    ListItem("Pánský strih", "(Délka: 30 min)", ""),
    ListItem("Klasický pánský strih", "0 min", "300 - 500 Kc"),
    ListItem("Barvení", "(Délka: 1,5 hod)", "300 Kc"),
    ListItem("Barvení", "", ""),
    ListItem("Barvení", "0 min", ""),
    ListItem("", "(Délka: 30 min)", "300 Kc") }

LlmService(name, duration, from, to) ==
  [name |-> name, description |-> IF duration = 45 THEN "d2" ELSE NULL,
   duration_minutes |-> duration, price_from |-> from, price_to |-> to]

ExtractedServices ==
  { LlmService("pánský strih", 30, NoNumber, NoNumber),
    LlmService("pánský strih", 45, 250, 400),
    LlmService("Pánský strih *", 45, 250, NoNumber),
    LlmService("pánský strih", NoNumber, NoNumber, NoNumber),
    LlmService("Barvení", 0, 0, 0),
    LlmService("Klasický pánský strih", 30, 250, NoNumber),
    LlmService("Pánský  strih", 30, 250, NoNumber),
    LlmService(" ", 30, NoNumber, NoNumber) }

ServicesInit ==
  /\ CrawlInit({CHOOSE c \in SmallConfigs : TRUE}, "extract")
  /\ ApplyIdle
  /\ fn = "services"
  /\ inp \in [items : SeqsUpTo(ListItems, MaxServices),
              extracted : SeqsUpTo(ExtractedServices, MaxServices)]
  /\ out = NULL

SpecServices == ServicesInit /\ [][ImportServices]_vars

\* --------------------------------------------------- contact extraction
\* extractContactFromHtml on one page and extractContactFromPages on the
\* pages of a crawl.  A page is given by what the extractors find in its HTML:
\* the phone and e-mail of each source, the JSON-LD address, where the text
\* names Praha and Brno, and the address candidates of the text with the
\* keywords of their context.  "head" is the first HtmlLimit characters of the
\* HTML, which is all extractAddressFromDom reads; "tail" is the rest.
HtmlLimit == 80000

PrahaABrno == Addr(12, TRUE)

Candidate(address, labeled, maps, city, legal) ==
  [address |-> address, labeled |-> labeled, maps |-> maps, city |-> city,
   legal |-> legal]

candidateScore(c) ==
  (IF c.labeled THEN 35 ELSE 0) + (IF c.maps THEN 10 ELSE 0)
  + (IF c.city THEN 10 ELSE 0) - (IF c.legal THEN 60 ELSE 0)

NoCandidate == Candidate(NoAddr, FALSE, FALSE, FALSE, FALSE)

\* candidates[0] after the sort by falling score, null when there is none
pickedCandidate(candidates) ==
  IF candidates = <<>> THEN NoCandidate
  ELSE LET best == CHOOSE i \in 1..Len(candidates) :
                     \A j \in 1..Len(candidates) :
                       \/ candidateScore(candidates[j]) < candidateScore(candidates[i])
                       \/ (candidateScore(candidates[j]) = candidateScore(candidates[i])
                           /\ i <= j)
       IN  candidates[best]

\* the variant that takes any returnable candidate for a strong one
strongEnoughFrom15(picked) == picked # NoCandidate /\ candidateScore(picked) >= 15

strongEnough(picked) == picked # NoCandidate /\ candidateScore(picked) >= 30

extractAddressFromDom(page) ==
  LET multiLocation == page.praha = "head" /\ page.brno = "head"
      picked        == pickedCandidate(page.candidates)
  IN  IF multiLocation /\ ~strongEnough(picked) THEN PrahaABrno
      ELSE IF picked # NoCandidate /\ candidateScore(picked) < 0 THEN NoAddr
      ELSE IF picked # NoCandidate /\ candidateScore(picked) >= 15 THEN picked.address
      ELSE NoAddr

\* the first truthy value of the sources in their order, else null
firstFound(sources) ==
  IF \E i \in 1..Len(sources) : sources[i] # NULL
  THEN sources[CHOOSE i \in 1..Len(sources) :
                 /\ sources[i] # NULL
                 /\ \A j \in 1..(i - 1) : sources[j] = NULL]
  ELSE NULL

extractContactFromHtml(page) ==
  [phone   |-> firstFound(page.phones),
   email   |-> firstFound(page.emails),
   address |-> IF isAddr(page.jsonLdAddress) THEN page.jsonLdAddress
               ELSE extractAddressFromDom(page)]

ExtractContactHtml ==
  /\ fn = "contact"
  /\ out' = extractContactFromHtml(inp)
  /\ fn' = "contact:done"
  /\ UNCHANGED <<cfg, pc, crawlVars, browser, err, fbrowser, response, applyVars, inp>>

isContactPage(url) == url \in {"/kontakt", "/o-nas"}

includesKontakt(url) == url = "/kontakt"

sortedPages(pagesIn) ==
  SelectSeq(pagesIn, LAMBDA p : isContactPage(p.url))
    \o SelectSeq(pagesIn, LAMBDA p : ~isContactPage(p.url))

\* the rule of phone and e-mail: the first value, or a contact page's value
\* over one not found on a "kontakt" URL
takesValue(current, from, value, isContact) ==
  /\ value # NULL
  /\ \/ current = NULL
     \/ isContact /\ ~includesKontakt(from)

\* the variant that takes every address
shouldUpdateAlways(current, from, address, isContact) == isAddr(address)

shouldUpdate(current, from, address, isContact) ==
  /\ isAddr(address)
  /\ \/ ~isAddr(current)
     \/ isContact /\ ~includesKontakt(from)
     \/ address.len > current.len + 10

mergePageContact(st, page) ==
  LET pageContact == extractContactFromHtml(page)
      isContact   == isContactPage(page.url)
      phone   == takesValue(st.result.phone, st.foundFrom.phone,
                            pageContact.phone, isContact)
      email   == takesValue(st.result.email, st.foundFrom.email,
                            pageContact.email, isContact)
      address == shouldUpdate(st.result.address, st.foundFrom.address,
                              pageContact.address, isContact)
      result  == [phone   |-> IF phone THEN pageContact.phone ELSE st.result.phone,
                  email   |-> IF email THEN pageContact.email ELSE st.result.email,
                  address |-> IF address THEN pageContact.address
                              ELSE st.result.address]
      foundFrom == [phone   |-> IF phone THEN page.url ELSE st.foundFrom.phone,
                    email   |-> IF email THEN page.url ELSE st.foundFrom.email,
                    address |-> IF address THEN page.url
                                ELSE st.foundFrom.address]
  IN  [st EXCEPT !.result = result, !.foundFrom = foundFrom, !.i = @ + 1,
                 !.stop = /\ result.phone # NULL
                          /\ result.email # NULL
                          /\ isAddr(result.address)]

ContactSort ==
  /\ fn = "pages"
  /\ out' = [sorted |-> sortedPages(inp), i |-> 1, stop |-> FALSE,
             result |-> [phone |-> NULL, email |-> NULL, address |-> NoAddr],
             foundFrom |-> [phone |-> NULL, email |-> NULL, address |-> NULL]]
  /\ fn' = "pages:loop"
  /\ UNCHANGED <<cfg, pc, crawlVars, browser, err, fbrowser, response, applyVars, inp>>

ContactSkip ==
  /\ fn = "pages:loop"
  /\ ~out.stop /\ out.i <= Len(out.sorted)
  /\ ~out.sorted[out.i].html
  /\ out' = [out EXCEPT !.i = @ + 1]
  /\ UNCHANGED <<cfg, pc, crawlVars, browser, err, fbrowser, response, applyVars, inp, fn>>

ContactPage ==
  /\ fn = "pages:loop"
  /\ ~out.stop /\ out.i <= Len(out.sorted)
  /\ out.sorted[out.i].html
  /\ out' = mergePageContact(out, out.sorted[out.i])
  /\ UNCHANGED <<cfg, pc, crawlVars, browser, err, fbrowser, response, applyVars, inp, fn>>

ContactReturn ==
  /\ fn = "pages:loop"
  /\ out.stop \/ out.i > Len(out.sorted)
  /\ fn' = "pages:done"
  /\ UNCHANGED <<cfg, pc, crawlVars, browser, err, fbrowser, response, applyVars, inp, out>>

ContactNext == ContactSort \/ ContactSkip \/ ContactPage \/ ContactReturn

Page(url, phones, emails, jsonLdAddress, praha, brno, candidates) ==
  [url |-> url, html |-> TRUE, phones |-> phones, emails |-> emails,
   jsonLdAddress |-> jsonLdAddress, praha |-> praha, brno |-> brno,
   candidates |-> candidates]

MaxCandidates == 2

CandidateValues ==
  { Candidate(Addr(20, FALSE), FALSE, FALSE, FALSE, FALSE),
    Candidate(Addr(20, FALSE), FALSE, TRUE, TRUE, FALSE),
    Candidate(Addr(36, FALSE), TRUE, FALSE, FALSE, FALSE),
    Candidate(Addr(36, FALSE), TRUE, FALSE, TRUE, TRUE),
    Candidate(Addr(20, FALSE), FALSE, FALSE, TRUE, FALSE) }

\* a context names a city only when the text read does
HtmlPages ==
  { p \in { Page("/", ph, <<NULL, NULL, em>>, ja, pr, br, cs) :
              ph \in {<<NULL, NULL, NULL>>, <<NULL, "+420111111111", "+420222222222">>},
              em \in {NULL, "a@salon.cz"},
              ja \in {NoAddr, Addr(0, FALSE), Addr(36, FALSE)},
              pr \in {"no", "head", "tail"}, br \in {"no", "head", "tail"},
              cs \in SeqsUpTo(CandidateValues, MaxCandidates) } :
      (\E i \in 1..Len(p.candidates) : p.candidates[i].city)
        => (p.praha = "head" \/ p.brno = "head") }

ContactHtmlInit ==
  /\ CrawlInit({CHOOSE c \in SmallConfigs : TRUE}, "extract")
  /\ ApplyIdle
  /\ fn = "contact"
  /\ inp \in HtmlPages
  /\ out = NULL

SpecContactHtml == ContactHtmlInit /\ [][ExtractContactHtml]_vars

MaxContactPages == 3

CrawledPages ==
  { Page("/kontakt", <<NULL, "+420111111111", NULL>>, <<NULL, NULL, NULL>>,
         NoAddr, "head", "head",
         <<Candidate(Addr(20, FALSE), FALSE, TRUE, TRUE, FALSE)>>),
    Page("/o-nas", <<NULL, NULL, "+420222222222">>, <<NULL, "a@salon.cz", NULL>>,
         Addr(20, FALSE), "no", "no", <<>>),
    Page("/sluzby", <<NULL, NULL, "+420222222222">>, <<NULL, NULL, "b@salon.cz">>,
         NoAddr, "head", "no",
         <<Candidate(Addr(36, FALSE), TRUE, FALSE, TRUE, FALSE)>>),
    Page("/cenik", <<"+420111111111", NULL, NULL>>, <<NULL, NULL, NULL>>,
         NoAddr, "no", "no", <<>>),
    Page("/", <<NULL, NULL, NULL>>, <<NULL, NULL, "b@salon.cz">>,
         NoAddr, "head", "no",
         <<Candidate(Addr(20, FALSE), FALSE, TRUE, TRUE, FALSE)>>),
    [Page("/galerie", <<NULL, NULL, NULL>>, <<NULL, NULL, NULL>>,
          NoAddr, "no", "no", <<>>) EXCEPT !.html = FALSE] }

\* the crawl stores a URL once
PageLists ==
  { l \in SeqsUpTo(CrawledPages, MaxContactPages) :
      \A i, j \in 1..Len(l) : i # j => l[i].url # l[j].url }

ContactPagesInit ==
  /\ CrawlInit({CHOOSE c \in SmallConfigs : TRUE}, "extract")
  /\ ApplyIdle
  /\ fn = "pages"
  /\ inp \in PageLists
  /\ out = NULL

SpecContactPages == ContactPagesInit /\ [][ContactNext]_vars

\* ------------------------------------------------------ phone numbers
\* A phone text is the sequence of its characters; NoPhone is null.
NoPhone == <<"null">>

Digits == {"0", "1", "2", "3", "4", "5", "6", "7", "8", "9"}

startsWith(s, prefix) ==
  Len(s) >= Len(prefix) /\ SubSeq(s, 1, Len(prefix)) = prefix

\* the variant that only strips the separators
strippedPhone(phone) ==
  IF phone \in {NoPhone, <<>>} THEN NoPhone
  ELSE SelectSeq(phone, LAMBDA c : c \in Digits \cup {"+"})

normalizePhoneToE164(phone) ==
  IF phone \in {NoPhone, <<>>} THEN NoPhone
  ELSE LET cleaned == SelectSeq(phone, LAMBDA c : c \in Digits \cup {"+"})
       IN  IF startsWith(cleaned, <<"+">>)
           THEN IF startsWith(cleaned, <<"+", "4", "2", "0">>) /\ Len(cleaned) = 13
                THEN cleaned
                ELSE IF Len(cleaned) >= 10 /\ Len(cleaned) <= 15 THEN cleaned
                ELSE NoPhone
           ELSE IF startsWith(cleaned, <<"4", "2", "0">>)
           THEN IF Len(cleaned) + 1 = 13 THEN <<"+">> \o cleaned ELSE NoPhone
           ELSE IF Len(cleaned) = 9 THEN <<"+", "4", "2", "0">> \o cleaned
           ELSE NoPhone

isDigitAt(text, i) == i >= 1 /\ i <= Len(text) /\ text[i] \in Digits

\* [\s\-]? at position i: the position after it
afterSeparator(text, i) ==
  IF i <= Len(text) /\ text[i] \in {" ", "-"} THEN i + 1 ELSE i

\* [0-9]{3} at position i: the position after it, 0 for no match
afterThree(text, i) ==
  IF i >= 1 /\ isDigitAt(text, i) /\ isDigitAt(text, i + 1) /\ isDigitAt(text, i + 2)
  THEN i + 3 ELSE 0

\* [\s\-]?[0-9]{3} behind a match that ended before a: 0 stays 0
afterNextThree(text, a) ==
  IF a = 0 THEN 0 ELSE afterThree(text, afterSeparator(text, a))

\* three groups of three digits with optional separators between them
afterNine(text, i) ==
  afterNextThree(text, afterNextThree(text, afterThree(text, i)))

\* (?![0-9]) behind a match that ended before e
notBeforeDigit(text, e) == IF e # 0 /\ ~isDigitAt(text, e) THEN e ELSE 0

\* the three PHONE_PATTERNS at position i: the position after the match, 0
\* for no match
afterPattern(k, text, i) ==
  CASE k = 1 ->
         IF startsWith(SubSeq(text, i, Len(text)), <<"+", "4", "2", "0">>)
         THEN afterNine(text, afterSeparator(text, i + 4)) ELSE 0
    [] k = 2 ->
         IF /\ ~isDigitAt(text, i - 1)
            /\ startsWith(SubSeq(text, i, Len(text)), <<"4", "2", "0">>)
         THEN notBeforeDigit(text, afterNine(text, afterSeparator(text, i + 3)))
         ELSE 0
    [] OTHER ->
         IF ~isDigitAt(text, i - 1)
         THEN notBeforeDigit(text, afterNine(text, i))
         ELSE 0

\* text.match(pattern) with the g flag: the matches from position i on; e is
\* where the match at i ends, 0 when there is none
RECURSIVE matchesFrom(_, _, _)
RECURSIVE matchAt(_, _, _, _)
matchAt(k, text, i, e) ==
  IF e = 0 THEN matchesFrom(k, text, i + 1)
  ELSE <<SubSeq(text, i, e - 1)>> \o matchesFrom(k, text, e)

matchesFrom(k, text, i) ==
  IF i > Len(text) THEN <<>>
  ELSE matchAt(k, text, i, afterPattern(k, text, i))

\* the elements of a list without the repetitions of earlier ones
firstOccurrences(valid) ==
  SelectSeq([i \in 1..Len(valid) |->
               [p |-> valid[i], first |-> \A j \in 1..(i - 1) : valid[j] # valid[i]]],
            LAMBDA e : e.first)

\* the matches that normalize to a number
validPhones(all) ==
  SelectSeq([i \in 1..Len(all) |-> normalizePhoneToE164(all[i])],
            LAMBDA p : p # NoPhone)

\* the normalized matches of the three patterns in their order of insertion
\* into the set
extractPhonesFromText(text) ==
  firstOccurrences(validPhones(matchesFrom(1, text, 1) \o matchesFrom(2, text, 1)
                                 \o matchesFrom(3, text, 1)))

\* the phone of a page that has it in its text only, and the stored phone
\* after the import: coalesce(data.profile.phone, existingProfile?.phone)
ImportPhone ==
  /\ fn = "phone"
  /\ LET textPhones == extractPhonesFromText(inp.text)
         candidate  == IF textPhones = <<>> THEN NoPhone ELSE textPhones[1].p
     IN  out' = [candidate |-> candidate,
                 stored |-> IF candidate # NoPhone THEN candidate ELSE inp.stored]
  /\ fn' = "phone:done"
  /\ UNCHANGED <<cfg, pc, crawlVars, browser, err, fbrowser, response, applyVars, inp>>

\* national numbers in three groups
NationalNumbers ==
  { <<<<"6", "0", "8">>, <<"7", "4", "4">>, <<"7", "7", "4">>>>,
    <<<<"7", "7", "7">>, <<"1", "2", "3">>, <<"4", "5", "6">>>>,
    <<<<"2", "2", "4">>, <<"8", "1", "1">>, <<"0", "0", "0">>>> }

Local(n, sep) == n[1] \o sep \o n[2] \o sep \o n[3]

International(n) == <<"+", "4", "2", "0">> \o Local(n, <<>>)

Separators == {<<>>, <<" ">>, <<"-">>}

\* the spellings of a number: local, with +420, with 420, with 00420
Spellings(n) ==
  {Local(n, sep) : sep \in Separators}
    \cup {<<"+", "4", "2", "0">> \o sep \o Local(n, sep) : sep \in Separators}
    \cup {<<"4", "2", "0">> \o sep \o Local(n, sep) : sep \in Separators}
    \cup {<<"0", "0", "4", "2", "0">> \o Local(n, <<>>)}

\* a page text that spells a number, and the phone stored before
PhoneInputs ==
  UNION {[number : {n},
          text : {<<"T", ":", " ">> \o s : s \in Spellings(n)},
          stored : {NoPhone} \cup {International(m) : m \in NationalNumbers}] :
           n \in NationalNumbers}

PhoneInit ==
  /\ CrawlInit({CHOOSE c \in SmallConfigs : TRUE}, "extract")
  /\ ApplyIdle
  /\ fn = "phone"
  /\ inp \in PhoneInputs
  /\ out = NULL

SpecPhone == PhoneInit /\ [][ImportPhone]_vars

\* ------------------------------------------------------------ locations
\* detectLocationsFromChunks.  An address text is given by what the code asks
\* of it: the street it names (also its place in localeCompare order), the
\* first CITY_KEYWORDS entry it contains ("none" without one), whether it
\* has a digit, a junk token and a "/", its length, and how many of its
\* characters are surplus whitespace.  The addresses and location names the
\* regular expressions of extractAddresses and extractLocationNames find in
\* the chunks are inputs.  A location is [name, address]; booking_providers,
\* the only field mapBookingProvidersToLocations writes, is left out.
LocAddress(street, city, digit, junk, len, slash, pad) ==
  [street |-> street, city |-> city, digit |-> digit, junk |-> junk,
   len |-> len, slash |-> slash, pad |-> pad]

\* null, undefined and the empty string
NoAddress == LocAddress(0, "none", FALSE, FALSE, 0, FALSE, 0)

MaxLocations == 5

containsCityKeyword(a) == a.city # "none"

\* the variant without the junk-token and length tests
hasCityAndDigit(a) == a.digit /\ containsCityKeyword(a)

isProbablyAddress(a) ==
  /\ a.digit
  /\ containsCityKeyword(a)
  /\ ~a.junk
  /\ a.len >= 8 /\ a.len <= 120

normalizeAddress(a) == [a EXCEPT !.len = @ - a.pad, !.pad = 0]

inferredLocationName(a) ==
  CASE a.city = "praha"     -> "Praha"
    [] a.city = "brno"      -> "Brno"
    [] a.city = "ostrava"   -> "Ostrava"
    [] a.city = "olomouc"   -> "Olomouc"
    [] a.city = "liberec"   -> "Liberec"
    [] a.city = "hradec"    -> "Hradec Králové"
    [] a.city = "pardubice" -> "Pardubice"
    [] OTHER                -> "Lokace"

\* one turn of the loop of normalizeAndFilterLocations on the result so far
filterLocation(result, loc) ==
  LET addrNorm == normalizeAddress(loc.address)
  IN  IF loc.address = NoAddress THEN result
      ELSE IF ~isProbablyAddress(addrNorm) THEN result
      ELSE IF \E i \in 1..Len(result) : result[i].address = addrNorm THEN result
      ELSE Append(result,
                  [name |-> IF loc.name \in {NULL, "Lokace"}
                            THEN inferredLocationName(addrNorm) ELSE loc.name,
                   address |-> addrNorm])

RECURSIVE normalizeAndFilterLocations(_, _)
normalizeAndFilterLocations(result, rawLocations) ==
  IF rawLocations = <<>> THEN result
  ELSE normalizeAndFilterLocations(filterLocation(result, Head(rawLocations)),
                                   Tail(rawLocations))

seedBaseLocationFromProfile(address) ==
  LET addrNorm == normalizeAddress(address)
  IN  IF address = NoAddress THEN <<>>
      ELSE IF ~isProbablyAddress(addrNorm) /\ ~hasCityAndDigit(addrNorm) THEN <<>>
      ELSE <<[name |-> inferredLocationName(addrNorm), address |-> addrNorm]>>

\* the sort order of the candidates of one city
betterAddress(a, b) ==
  IF a.slash # b.slash THEN a.slash
  ELSE IF a.len # b.len THEN a.len < b.len
  ELSE a.street <= b.street

\* the cities of the candidates in the order the map first sees them
RECURSIVE citiesInOrder(_, _)
citiesInOrder(candidates, known) ==
  IF candidates = <<>> THEN <<>>
  ELSE IF Head(candidates).address.city \in known
  THEN citiesInOrder(Tail(candidates), known)
  ELSE <<Head(candidates).address.city>>
         \o citiesInOrder(Tail(candidates),
                          known \cup {Head(candidates).address.city})

bestOfCity(candidates, city) ==
  LET locs == {i \in 1..Len(candidates) : candidates[i].address.city = city}
  IN  candidates[CHOOSE i \in locs :
                   \A j \in locs :
                     \/ i = j
                     \/ (betterAddress(candidates[i].address, candidates[j].address)
                         /\ (betterAddress(candidates[j].address, candidates[i].address)
                             => i < j))]

\* the variant without the cap
uncapped(results) == results

capped(results) ==
  IF Len(results) <= MaxLocations THEN results ELSE SubSeq(results, 1, MaxLocations)

selectCanonicalPerCity(baseLocation, candidates) ==
  LET baseCity == IF baseLocation = <<>> THEN {}
                  ELSE {baseLocation[1].address.city}
      cities   == SelectSeq(citiesInOrder(candidates, {}),
                            LAMBDA c : c \notin baseCity /\ c # "none")
  IN  capped(baseLocation
             \o [i \in 1..Len(cities) |-> bestOfCity(candidates, cities[i])])

\* address.toLowerCase().includes(locName.toLowerCase()): a plain city name
\* is in the addresses of that city
nameInAddress(locName, a) ==
  \/ locName = "Praha" /\ a.city = "praha"
  \/ locName = "Brno" /\ a.city = "brno"

\* the name given to one of several addresses
nameForAddress(a, locationNames) ==
  LET matching == {i \in 1..Len(locationNames) : nameInAddress(locationNames[i], a)}
  IN  IF matching # {}
      THEN locationNames[CHOOSE i \in matching : \A j \in matching : i <= j]
      ELSE IF a.city \in {"praha", "brno", "ostrava", "liberec", "olomouc"}
      THEN inferredLocationName(a)
      ELSE "Lokace"

rawLocationsOf(addresses, locationNames, profileAddress) ==
  IF Len(addresses) > 1
  THEN [i \in 1..Len(addresses) |->
          [name |-> nameForAddress(addresses[i], locationNames),
           address |-> addresses[i]]]
  ELSE IF Len(addresses) = 1
  THEN IF Len(locationNames) > 1
       THEN [i \in 1..Len(locationNames) |->
               [name |-> locationNames[i], address |-> addresses[1]]]
       ELSE <<[name |-> IF Len(locationNames) > 0 THEN locationNames[1] ELSE NULL,
               address |-> addresses[1]]>>
  ELSE IF Len(locationNames) > 0
  THEN [i \in 1..Len(locationNames) |->
          [name |-> locationNames[i], address |-> profileAddress]]
  ELSE IF profileAddress # NoAddress
  THEN <<[name |-> NULL, address |-> profileAddress]>>
  ELSE <<>>

detectLocationsFromChunks(in) ==
  IF ~in.chunks THEN <<>>
  ELSE LET rawLocations == rawLocationsOf(in.addresses, in.locationNames,
                                          in.profileAddress)
           cleaned == normalizeAndFilterLocations(<<>>, rawLocations)
           baseLocation == seedBaseLocationFromProfile(in.profileAddress)
           finalLocations == selectCanonicalPerCity(baseLocation, cleaned)
       IN  IF finalLocations = <<>> /\ in.profileAddress # NoAddress
           THEN <<[name |-> NULL, address |-> in.profileAddress]>>
           ELSE finalLocations

DetectLocations ==
  /\ fn = "locations"
  /\ out' = detectLocationsFromChunks(inp)
  /\ fn' = "locations:done"
  /\ UNCHANGED <<cfg, pc, crawlVars, browser, err, fbrowser, response, applyVars, inp>>

\* the addresses a text may hold, in the order of their first match
AddressPool ==
  << LocAddress(1, "praha", TRUE, FALSE, 28, TRUE, 0),
     LocAddress(2, "praha", TRUE, FALSE, 22, FALSE, 2),
     LocAddress(3, "brno", TRUE, FALSE, 24, FALSE, 0),
     LocAddress(4, "ostrava", TRUE, FALSE, 21, FALSE, 0),
     LocAddress(5, "olomouc", TRUE, FALSE, 19, FALSE, 0),
     LocAddress(6, "liberec", TRUE, FALSE, 18, TRUE, 0),
     LocAddress(7, "hradec", TRUE, FALSE, 30, FALSE, 0),
     LocAddress(8, "pardubice", TRUE, FALSE, 130, FALSE, 0),
     LocAddress(9, "brno", TRUE, TRUE, 40, FALSE, 0),
     LocAddress(10, "none", TRUE, FALSE, 16, FALSE, 0) >>

NamePool == <<"Praha", "Brno", "Praha - Vinohrady">>

\* the entries of a pool at the positions of a set, in the pool's order
Picked(pool, positions) ==
  SelectSeq([i \in 1..Len(pool) |-> [at |-> i, v |-> pool[i]]],
            LAMBDA e : e.at \in positions)

PickedValues(pool, positions) ==
  [i \in 1..Len(Picked(pool, positions)) |-> Picked(pool, positions)[i].v]

\* a profile address: none, a street address, one with a price in it, the
\* two-city summary, one of more than 120 characters
ProfileAddresses ==
  { NoAddress,
    LocAddress(1, "praha", TRUE, FALSE, 28, TRUE, 0),
    LocAddress(11, "brno", TRUE, TRUE, 35, FALSE, 1),
    LocAddress(12, "praha", FALSE, FALSE, 12, FALSE, 0),
    LocAddress(13, "olomouc", TRUE, FALSE, 140, FALSE, 0) }

LocationsInit ==
  /\ CrawlInit({CHOOSE c \in SmallConfigs : TRUE}, "extract")
  /\ ApplyIdle
  /\ fn = "locations"
  /\ \E as \in SUBSET (1..Len(AddressPool)), ns \in SUBSET (1..Len(NamePool)) :
       inp \in [chunks : BOOLEAN,
                addresses : {PickedValues(AddressPool, as)},
                locationNames : {PickedValues(NamePool, ns)},
                profileAddress : ProfileAddresses]
  /\ out = NULL

SpecLocations == LocationsInit /\ [][DetectLocations]_vars

\* ---------------------------------------------------- called number
\* extractCalledNumberDetailed of lib/tenantResolver.js, which index.js and
\* routes/vapi.js import, and the one of the second copy of the file.  A
\* payload is the record of the values at the paths below, NULL for a path
\* that is absent; the paths not listed are absent in every payload.
\* message says whether payload.message is an object, messageCall whether
\* payload.message.call is one.
InboundNumber == "+420910928116"

CallerNumber == "+420777228540"

isNonBlankString(v) == v \notin {NULL, " "}

\* the first candidate that is a non-blank string, NULL when there is none
firstString(values) ==
  IF \E i \in 1..Len(values) : isNonBlankString(values[i])
  THEN values[CHOOSE i \in 1..Len(values) :
                /\ isNonBlankString(values[i])
                /\ \A j \in 1..(i - 1) : ~isNonBlankString(values[j])]
  ELSE NULL

\* lib/tenantResolver.js: the candidates in priority order; the legacy
\* fallback reads a subset of the same paths
extractCalledNumberDetailed(p) ==
  firstString(<<p.to, p.m_to, p.m_call_to, p.p_call_to, p.twilio_to,
                p.m_customer_number, p.m_call_customer_number>>)

\* the second copy: a Vapi payload is routed by the inbound number only
extractCalledNumberVapiAware(p) ==
  LET looksLikeVapi == p.message /\ (p.m_type # NULL \/ p.messageCall)
      call == IF p.messageCall THEN p.m_call_to ELSE p.p_call_to
      legacy == firstString(<<p.to, p.m_to, call>>)
  IN  IF looksLikeVapi
      THEN IF firstString(<<p.m_call_phoneNumber_number, p.m_call_phoneNumber, p.to>>) # NULL
           THEN firstString(<<p.m_call_phoneNumber_number, p.m_call_phoneNumber, p.to>>)
           ELSE legacy
      ELSE legacy

ExtractCalledNumber ==
  /\ fn = "called"
  /\ out' = [to |-> extractCalledNumberDetailed(inp), file |-> "lib/tenantResolver.js"]
  /\ fn' = "called:done"
  /\ UNCHANGED <<cfg, pc, crawlVars, browser, err, fbrowser, response, applyVars, inp>>

ExtractCalledNumberSecondCopy ==
  /\ fn = "called"
  /\ out' = [to |-> extractCalledNumberVapiAware(inp), file |-> "part_008"]
  /\ fn' = "called:done"
  /\ UNCHANGED <<cfg, pc, crawlVars, browser, err, fbrowser, response, applyVars, inp>>

CalledNext == ExtractCalledNumber \/ ExtractCalledNumberSecondCopy

Payloads ==
  { p \in [to : {NULL, InboundNumber},
           message : BOOLEAN,
           m_type : {NULL, "conversation-update"},
           m_to : {NULL, InboundNumber},
           messageCall : BOOLEAN,
           m_call_to : {NULL, InboundNumber},
           m_call_phoneNumber_number : {NULL, " ", InboundNumber},
           m_call_phoneNumber : {NULL, InboundNumber},
           m_call_customer_number : {NULL, CallerNumber},
           m_customer_number : {NULL, CallerNumber},
           p_call_to : {NULL, InboundNumber},
           twilio_to : {NULL, InboundNumber}] :
      /\ ~p.message =>
           (p.m_type = NULL /\ p.m_to = NULL /\ ~p.messageCall
            /\ p.m_customer_number = NULL)
      /\ ~p.messageCall =>
           (p.m_call_to = NULL /\ p.m_call_phoneNumber_number = NULL
            /\ p.m_call_phoneNumber = NULL /\ p.m_call_customer_number = NULL)
      /\ p.m_call_phoneNumber # NULL => p.m_call_phoneNumber_number = NULL }

CalledInit ==
  /\ CrawlInit({CHOOSE c \in SmallConfigs : TRUE}, "extract")
  /\ ApplyIdle
  /\ fn = "called"
  /\ inp \in Payloads
  /\ out = NULL

SpecCalled == CalledInit /\ [][CalledNext]_vars

\* ------------------------------------------------------------ re-import
\* crawlBusinessWebsite on a source that was indexed before: crawledPages
\* starts as the kb_pages rows of the source (its kb_chunks rows hang on
\* them and are deleted by the same kind of statement), before keeps them.
OldPages == {<<>>, <<U(BaseHost, 0)>>, <<U(BaseHost, 0), U(BaseHost, 1)>>}

\* Step 2: the old chunks and pages are deleted; an error of the delete is
\* not looked at, so the rows may stay
DeleteOldRows ==
  /\ pc = "reindex"
  /\ \E deleted \in BOOLEAN :
       crawledPages' = IF deleted THEN <<>> ELSE crawledPages
  /\ pc' = "seed"
  /\ UNCHANGED <<cfg, queue, seen, visited, pagesCrawled, pages, bookingProviders,
                 renders, dequeued, discLog, failures, browser, err, fbrowser,
                 response, applyVars, pureVars>>

ReindexInit ==
  /\ cfg \in SmallConfigs
  /\ pc = "reindex"
  /\ queue = <<>>
  /\ seen = {}
  /\ visited = {}
  /\ pagesCrawled = 0
  /\ pages = <<>>
  /\ crawledPages \in OldPages
  /\ bookingProviders = {}
  /\ browser = "none"
  /\ err = {}
  /\ renders = <<>>
  /\ dequeued = <<>>
  /\ discLog = {}
  /\ failures = 0
  /\ fbrowser = "none"
  /\ response = NULL
  /\ apc = "idle"
  /\ data = NULL
  /\ bizName = NULL
  /\ profile = NULL
  /\ before = crawledPages
  /\ services = NULL
  /\ hours = NULL
  /\ round = 0
  /\ after1 = NULL
  /\ PureIdle

ReindexNext == DeleteOldRows \/ Next

SpecReindex == ReindexInit /\ [][ReindexNext]_vars

\* ---------------------------------------------------------------- claims
PageOf(u) == <<u.host, u.path>>

NoTwice(s) == \A i, j \in 1..Len(s) : i # j => PageOf(s[i]) # PageOf(s[j])

\* C1: in one crawl no URL is navigated to twice and no URL is twice in the
\* returned pages list, where URLs that differ only in a fragment or a trailing
\* slash are the same URL
C1_NoUrlTwice ==
  /\ NoTwice(renders)
  /\ NoTwice([i \in 1..Len(pages) |-> pages[i].url])

\* a URL seeded in two spellings (forced with "/#frag", plain in the sitemap)
\* has been rendered, and so has another page
C1_Witness ==
  /\ cfg.forcedUrls = <<Deco(U(BaseHost, 1))>>
  /\ cfg.sitemapLocs # <<>>
  /\ \E i \in 1..Len(pages) : pages[i].url = U(BaseHost, 1)
  /\ Len(renders) >= 2

\* C2 as stated: the navigation attempts of a crawl, failed ones included, are
\* at most maxPages
C2_RendersWithinMaxPages == Len(renders) <= cfg.maxPages

\* C2 amended: the renders that did not fail are at most maxPages, and they are
\* the pages counted and stored
C2_StoredWithinMaxPages ==
  /\ Len(renders) - failures <= cfg.maxPages
  /\ Len(renders) - failures = pagesCrawled
  /\ Len(crawledPages) = pagesCrawled

\* the budget is used up after a failed render
C2_Witness ==
  /\ pagesCrawled = cfg.maxPages
  /\ failures > 0
  /\ Len(renders) > cfg.maxPages

\* C3: the returned pages list never holds more than maxPages pages
C3_PagesWithinMaxPages == Len(pages) <= cfg.maxPages

SeedCount ==
  1 + Len(cfg.forcedUrls) + Len(cfg.sitemapLocs)

\* C4: the loop ends after finitely many dequeues: the tasks taken off the queue
\* and those still on it are never more than the seeds plus maxLinksPerPage for
\* every stored page but the last, and every step of the loop takes one task
\* off the queue or leaves the loop with the queue empty or the budget used up
C4_CrawlTerminates ==
  /\ [](Len(dequeued) + Len(queue)
         <= SeedCount + maxLinksPerPage * (cfg.maxPages - 1))
  /\ [][pc = "loop" =>
          \/ Len(dequeued') = Len(dequeued) + 1 /\ pc' = "loop"
          \/ /\ pc' = "crawl_returned"
             /\ (queue = <<>> \/ pagesCrawled = cfg.maxPages)]_vars

\* the crawl of the link farm has returned with the budget used up and links
\* still queued
C4_Witness ==
  /\ cfg.site = "farm"
  /\ pc = "crawl_returned"
  /\ pagesCrawled = cfg.maxPages
  /\ Len(queue) >= maxLinksPerPage

\* C5: the queue never holds more than maxQueueSize tasks
C5_QueueWithinCap == Len(queue) <= maxQueueSize

IndexOf(s, x) == CHOOSE i \in 1..Len(s) : s[i] = x

InSeq(s, x) == \E i \in 1..Len(s) : s[i] = x

\* C6: of a priority link and a normal link queued by the discovery on one
\* page, the normal one is never dequeued unless the priority one was dequeued
\* before it
C6_PriorityFirst ==
  \A p, n \in discLog :
    (p.page = n.page /\ p.prio /\ ~n.prio /\ InSeq(dequeued, n.url)) =>
      /\ InSeq(dequeued, p.url)
      /\ IndexOf(dequeued, p.url) < IndexOf(dequeued, n.url)

C6_Witness ==
  \E p, n \in discLog :
    /\ p.page = n.page /\ p.prio /\ ~n.prio
    /\ InSeq(dequeued, n.url)

\* an iteration that fails before the page is stored
FailedBeforeStored ==
  PageNavFailed \/ PageHttpError \/ PageThrows \/ PageInsertFailed

\* what C7 says of a failed iteration: not counted, the URL is marked visited
\* and seen and is off the queue, and the loop goes on
FailureSkipsPage ==
  /\ pagesCrawled' = pagesCrawled
  /\ Current \in visited' /\ Current \in seen'
  /\ \A i \in 1..Len(queue') : normalizeUrl(queue'[i].url) # Current
  /\ pc' = "loop"

\* C7 as stated: this holds for the failures before the page is stored and for
\* an exception of the link extraction
C7_FailureNotCounted ==
  [][(FailedBeforeStored \/ PageLinksFailed) => FailureSkipsPage]_vars

\* C7 amended: it holds for the failures before the page is stored, no URL is
\* attempted that was visited before, and an exception of the link extraction
\* leaves the page stored and counted
C7_EarlyFailureNotCounted ==
  [][/\ FailedBeforeStored => FailureSkipsPage
     /\ renders' # renders => (Current \notin visited /\ Current \in visited')
     /\ PageLinksFailed => (pagesCrawled' = pagesCrawled + 1 /\ pc' = "loop")]_vars

\* a page failed, and the crawl went on to store the next one
C7_Witness ==
  /\ failures > 0
  /\ Len(renders) >= 2
  /\ pagesCrawled > 0
  /\ pages # <<>> /\ pages[Len(pages)].url = renders[Len(renders)]
  /\ renders[1] \notin {pages[i].url : i \in 1..Len(pages)}

\* C8: once the crawl has returned or thrown its browser is not open, and once
\* the Fresha fallback is over its browser is not open
C8_BrowsersClosed ==
  /\ pc \in {"crawl_returned", "crawl_thrown", "import_thrown", "fresha",
             "import_returned", "responded"} => browser # "open"
  /\ pc \in {"import_returned", "responded"} => fbrowser # "open"

\* C9: when no browser could be launched nothing was rendered and the response
\* carries PLAYWRIGHT_MISSING
C9_LaunchFailureCode ==
  (pc = "responded" /\ browser = "none") =>
    (renders = <<>> /\ response = "PLAYWRIGHT_MISSING")

ProfileFields == {"name", "address", "phone", "email", "website"}

Column(f) == IF f = "website" THEN "website_url" ELSE f

blankOrNull(v) == v.nul \/ v.words = <<>>

\* C10: once the profile is written, every field whose stored value was not
\* empty and whose imported value is null, empty or white space holds the
\* stored value
C10_CoalesceKeepsStored ==
  apc = "services" =>
    \A f \in ProfileFields :
      (truthy(Field(before.profile, Column(f))) /\ blankOrNull(data.profile[f]))
        => profile[Column(f)] = before.profile[Column(f)]

\* C11: when the same data has been applied a second time, the stored profile,
\* services and opening hours are those the first application left
C11_ApplyTwiceSame ==
  (apc = "done" /\ round = 2) =>
    /\ profile = after1.profile
    /\ services = after1.services
    /\ hours = after1.hours

\* C12: the services upsert leaves is_bookable of every stored service whose
\* slug is the slug of an imported service as it was
C12_BookableKept ==
  [][ApplyServices =>
       \A sl \in DOMAIN services :
         services[sl].present
           => services'[sl].is_bookable = services[sl].is_bookable]_vars

nonBlank(v) == ~v.nul /\ v.words # <<>>

\* what C13 asks of a replacement of the name stored by imported
ReplaceAllowed(imported, stored, website) ==
  /\ nonBlank(imported)
  /\ trim(imported) # trim(stored)
  /\ isGenericBusinessName(stored, website)
  /\ scoreBusinessName(imported, website) > scoreBusinessName(stored, website)

BusinessNameKept ==
  (ApplyBusinessName /\ nonBlank(bizName) /\ trim(bizName') # trim(bizName))
    => ReplaceAllowed(data.profile.name, bizName, orNull(data.profile.website))

ProfileNameKept ==
  (ApplyProfile /\ nonBlank(profile.name) /\ trim(profile'.name) # trim(profile.name))
    => ReplaceAllowed(data.profile.name, profile.name, orNull(data.profile.website))

\* C13: a non-empty stored name, in businesses and in business_profile, is
\* replaced only by a non-empty imported name that differs from it, when the
\* stored name scores as generic and the imported one scores strictly higher
C13_NameReplacedOnlyIfBetter == [][BusinessNameKept /\ ProfileNameKept]_vars

\* C15: STEP 3 changes the row of a weekday only to the times of an imported
\* entry of that weekday that has both times, and with no such entry in the
\* data it changes no row
C15_OnlyValidHoursWritten ==
  [][ApplyHours =>
       /\ \A d \in Weekdays :
            hours'[d] # hours[d] =>
              \E i \in 1..Len(data.openingHours) :
                LET oh == data.openingHours[i]
                IN /\ oh.weekday = d
                   /\ hasTime(oh.opensAt) /\ hasTime(oh.closesAt)
                   /\ hours'[d] = [present |-> TRUE, opens_at |-> oh.opensAt,
                                   closes_at |-> oh.closesAt]
       /\ (\A i \in 1..Len(data.openingHours) :
             ~(hasTime(data.openingHours[i].opensAt)
               /\ hasTime(data.openingHours[i].closesAt)))
            => hours' = hours]_vars

\* the data had a day with both times and a day that lacks one: the first
\* was written over the stored row, the second row is as it was
C15_Witness ==
  /\ apc = "done"
  /\ Len(data.openingHours) = 2
  /\ hours["tue"] = [present |-> TRUE, opens_at |-> "10:00", closes_at |-> "18:00"]
  /\ hours["mon"] = [present |-> TRUE, opens_at |-> "08:00", closes_at |-> "16:00"]
  /\ before.hours["tue"].opens_at = "08:00"

\* C14: the imported hours are the JSON-LD hours when these have a valid day,
\* else the heuristic hours when there are any, else the oracle's hours
C14_HoursPrecedence ==
  fn = "hours:done" =>
    LET noPre == inp.pre = [d \in DayKeys |-> NoEntry]
    IN /\ validDays(inp.jsonLd) > 0 => out = hoursArray(inp.jsonLd)
       /\ (validDays(inp.jsonLd) = 0 /\ ~noPre) => out = hoursArray(inp.pre)
       /\ (validDays(inp.jsonLd) = 0 /\ noPre /\ validDays(inp.llm) > 0)
            => out = hoursArray(inp.llm)

\* the oracle's address is a street address longer than the deterministic
\* one, which is short and generic
OracleMoreSpecific(deterministic, llm) ==
  /\ isAddr(llm) /\ ~llm.generic /\ llm.len > deterministic.len
  /\ deterministic.generic /\ deterministic.len < GenericLlmLength

\* C16: the final address is the deterministic one when there is one, but the
\* oracle's when that is clearly more specific than a short generic
\* deterministic one; with no deterministic address it is the oracle's
C16_AddressPrecedence ==
  fn = "address:done" =>
    /\ (isAddr(inp.deterministic) /\ ~OracleMoreSpecific(inp.deterministic, inp.llm))
         => out = inp.deterministic
    /\ (isAddr(inp.deterministic) /\ OracleMoreSpecific(inp.deterministic, inp.llm))
         => out = inp.llm
    /\ (~isAddr(inp.deterministic) /\ isAddr(inp.llm)) => out = inp.llm

\* Services of one key: the positions of a list whose names have the key
\* (a final name is already canonical).
KeyOf(s) == normalizeServiceNameForComparison(canonicalizeServiceName(s.name))

WithKey(list, key) == {i \in 1..Len(list) : KeyOf(list[i]) = key}

NumericFields == {"durationMinutes", "priceFrom", "priceTo"}

Keys == {"pansky strih", "barveni"}

\* the numbers the services of a key give for a field
Given(list, key, f) ==
  {list[i][f] : i \in WithKey(list, key)} \ {NoNumber}

\* the record of a key carries the DOM's numbers, and the oracle's where the
\* DOM has none
MergedUnderOneKey(key) ==
  LET recs == WithKey(out.services, key)
  IN  /\ Cardinality(recs) = 1
      /\ \A i \in recs : \A f \in NumericFields :
           IF Given(out.dom, key, f) # {}
           THEN out.services[i][f] \in Given(out.dom, key, f)
           ELSE IF Given(out.llm, key, f) # {}
           THEN out.services[i][f] \in Given(out.llm, key, f)
           ELSE out.services[i][f] = NoNumber

\* C17: when the DOM extractor and the oracle each give a service of one
\* key, the imported services hold exactly one record of the key, with the
\* DOM's non-null numeric fields and the oracle's values for the others.
C17_MergedUnderOneKey ==
  fn = "services:done" =>
    \A key \in Keys :
      (WithKey(out.dom, key) # {} /\ WithKey(out.llm, key) # {})
        => MergedUnderOneKey(key)

\* C18: no service without a duration and without a price is in the output
\* of the price-list extractor or in the imported services.
C18_NoServiceWithoutNumbers ==
  fn = "services:done" =>
    /\ \A i \in 1..Len(out.dom) :
         \/ out.dom[i].durationMinutes \notin {NoNumber, 0}
         \/ out.dom[i].priceFrom # NoNumber
         \/ out.dom[i].priceTo # NoNumber
    /\ \A i \in 1..Len(out.services) :
         \/ out.services[i].durationMinutes \notin {NoNumber, 0}
         \/ out.services[i].priceFrom # NoNumber
         \/ out.services[i].priceTo # NoNumber

\* a header item and a service of the oracle without numbers were given and
\* dropped, and one service with numbers was imported
C18_Witness ==
  /\ fn = "services:done"
  /\ \E i \in 1..Len(inp.items) :
       /\ inp.items[i].rawName = "Barvení"
       /\ inp.items[i].durationText = ""
       /\ inp.items[i].priceText = ""
  /\ \E i \in 1..Len(out.llm) :
       /\ ~hasNumeric(out.llm[i])
       /\ WithKey(out.services, KeyOf(out.llm[i])) = {}
  /\ Len(out.dom) = 1
  /\ Len(out.services) = 1

ContactFields == {"phone", "email", "address"}

HasValue(f, v) == IF f = "address" THEN isAddr(v) ELSE v # NULL

\* the positions of the sorted pages that yield a field
Yielding(st, f) ==
  {i \in 1..Len(st.sorted) :
     /\ st.sorted[i].html
     /\ HasValue(f, extractContactFromHtml(st.sorted[i])[f])}

FirstYielding(st, f) == CHOOSE i \in Yielding(st, f) : \A j \in Yielding(st, f) : i <= j

\* a field found on a contact page is not taken from a non-contact page later
ContactValueStays(f) ==
  (/\ fn = "pages:loop"
   /\ isContactPage(out.foundFrom[f])
   /\ out'.foundFrom[f] # out.foundFrom[f])
    => isContactPage(out'.foundFrom[f])

\* with no contact page yielding the field, the first yielding page gives it
FirstFoundWins(f) ==
  (/\ fn' = "pages:done"
   /\ Yielding(out', f) # {}
   /\ \A i \in Yielding(out', f) : ~isContactPage(out'.sorted[i].url))
    => out'.result[f] = extractContactFromHtml(out'.sorted[FirstYielding(out', f)])[f]

\* C19 as stated: for phone, e-mail and address, a value of a contact/about
\* page is never replaced by one of a non-contact page, and when no
\* contact/about page yields the field the first page in processing order
\* that yields it gives the result.
C19_ContactPageWins ==
  [][\A f \in ContactFields : ContactValueStays(f) /\ FirstFoundWins(f)]_vars

\* a non-contact page replaces an address only by one more than ten
\* characters longer
LongerAddressOnly ==
  (/\ fn = "pages:loop"
   /\ isAddr(out.result.address)
   /\ out'.foundFrom.address # out.foundFrom.address
   /\ ~isContactPage(out'.foundFrom.address))
    => out'.result.address.len > out.result.address.len + 10

FirstOrLongerAddress ==
  (/\ fn' = "pages:done"
   /\ Yielding(out', "address") # {}
   /\ \A i \in Yielding(out', "address") : ~isContactPage(out'.sorted[i].url))
    => LET first == extractContactFromHtml(
                      out'.sorted[FirstYielding(out', "address")]).address
       IN  \/ out'.result.address = first
           \/ out'.result.address.len > first.len + 10

\* C19 amended: the rule holds for phone and e-mail; an address is replaced
\* by a non-contact page's only when that one is more than ten characters
\* longer.
C19_ContactPageWinsButLongerAddress ==
  [][/\ \A f \in {"phone", "email"} : ContactValueStays(f) /\ FirstFoundWins(f)
     /\ LongerAddressOnly
     /\ FirstOrLongerAddress]_vars

\* the contact page's phone stayed although a later services page has
\* another, and that page's longer address replaced the contact page's
C19_Witness ==
  /\ fn = "pages:done"
  /\ out.foundFrom.phone = "/kontakt"
  /\ out.foundFrom.address = "/sluzby"
  /\ out.result.phone = "+420111111111"
  /\ out.result.address = Addr(36, FALSE)

\* C20 as stated: a page whose text names Praha and Brno, without a
\* structured-data address and without a candidate of the high-confidence
\* score, gets the address "Praha a Brno" and none of its candidates.
C20_TwoCitySummary ==
  (/\ fn = "contact:done"
   /\ inp.praha # "no" /\ inp.brno # "no"
   /\ ~isAddr(inp.jsonLdAddress)
   /\ \A i \in 1..Len(inp.candidates) : candidateScore(inp.candidates[i]) < 30)
    => out.address = PrahaABrno

\* C20 amended: the same for a page that names both cities within the
\* first 80000 characters of its HTML.
C20_TwoCitySummaryInHead ==
  (/\ fn = "contact:done"
   /\ inp.praha = "head" /\ inp.brno = "head"
   /\ ~isAddr(inp.jsonLdAddress)
   /\ \A i \in 1..Len(inp.candidates) : candidateScore(inp.candidates[i]) < 30)
    => out.address = PrahaABrno

\* both cities in the head, a candidate of score 20 and none stronger: the
\* summary is returned
C20_Witness ==
  /\ fn = "contact:done"
  /\ inp.praha = "head" /\ inp.brno = "head"
  /\ ~isAddr(inp.jsonLdAddress)
  /\ \E i \in 1..Len(inp.candidates) : candidateScore(inp.candidates[i]) = 20
  /\ \A i \in 1..Len(inp.candidates) : candidateScore(inp.candidates[i]) < 30
  /\ out.address = PrahaABrno

LocalOrPlus(n) ==
  {<<"T", ":", " ">> \o Local(n, sep) : sep \in Separators}
    \cup {<<"T", ":", " ">> \o <<"+", "4", "2", "0">> \o sep \o Local(n, sep) :
            sep \in Separators}

\* C21: the local spelling and the +420 spelling of one Czech number
\* normalize to the same +420 value, which normalizes to itself, and the
\* import over an equal stored phone leaves that value stored.
C21_PhoneSpellingsAgree ==
  (fn = "phone:done" /\ inp.text \in LocalOrPlus(inp.number)) =>
    /\ out.candidate = International(inp.number)
    /\ normalizePhoneToE164(out.candidate) = out.candidate
    /\ inp.stored = International(inp.number) => out.stored = inp.stored

\* "608 744 774" was imported over the stored +420608744774
C21_Witness ==
  /\ fn = "phone:done"
  /\ inp.text = <<"T", ":", " ", "6", "0", "8", " ", "7", "4", "4", " ", "7", "7", "4">>
  /\ inp.stored = <<"+", "4", "2", "0", "6", "0", "8", "7", "4", "4", "7", "7", "4">>
  /\ out.stored = inp.stored

\* C22: every URL on the queue and every URL rendered has the hostname of
\* the base URL, whether it was seeded from forced URLs or the sitemap or
\* found by link discovery.
C22_SameHostOnly ==
  /\ \A i \in 1..Len(queue) : queue[i].url.host = cfg.baseUrl.host
  /\ \A i \in 1..Len(renders) : renders[i].host = cfg.baseUrl.host

\* the links queued by link discovery have the base hostname
DiscoveredSameHost ==
  \A l \in discLog : l.url.host = cfg.baseUrl.host

\* C23: detectLocationsFromChunks returns at most 5 location records.
C23_AtMostFiveLocations ==
  fn = "locations:done" => Len(out) <= MaxLocations

\* addresses of more than five cities pass the filter and five locations
\* are returned
C23_Witness ==
  /\ fn = "locations:done"
  /\ Cardinality({inp.addresses[i].city : i \in {j \in 1..Len(inp.addresses) :
                     isProbablyAddress(normalizeAddress(inp.addresses[j]))}})
       > MaxLocations
  /\ Len(out) = MaxLocations

\* C26: every returned location has an address with a digit and a city
\* keyword, of 8 to 120 characters and without a junk token, the base
\* location of the profile and the fallback record included.
C26_OnlyProbableAddresses ==
  fn = "locations:done" =>
    \A i \in 1..Len(out) : isProbablyAddress(out[i].address)

\* the locations built from the addresses of the text pass the filter
TextAddressesProbable ==
  (fn = "locations:done" /\ inp.profileAddress = NoAddress) =>
    \A i \in 1..Len(out) : isProbablyAddress(out[i].address)

\* C27: with exactly one extracted address and more than one location name
\* the result holds one location per name, all with that address.
C27_OneLocationPerName ==
  (fn = "locations:done" /\ inp.chunks
   /\ Len(inp.addresses) = 1 /\ Len(inp.locationNames) > 1) =>
    /\ Len(out) = Len(inp.locationNames)
    /\ \A i \in 1..Len(out) :
         /\ out[i].name = inp.locationNames[i]
         /\ out[i].address = normalizeAddress(inp.addresses[1])

BothNumbers ==
  /\ inp.m_call_phoneNumber_number = InboundNumber
  /\ inp.m_call_customer_number = CallerNumber

\* C24: for a Vapi payload with message.call.phoneNumber.number and
\* message.call.customer.number the extracted number is the inbound
\* business number, never the caller's.
C24_InboundNumberExtracted ==
  (fn = "called:done" /\ BothNumbers) => out.to = InboundNumber

\* the second copy of the file alone
SecondCopyExtractsInbound ==
  (fn = "called:done" /\ BothNumbers /\ out.file = "part_008")
    => out.to = InboundNumber


\* C25: the services upsert never replaces the non-empty description of a
\* stored service by null (duration_minutes, price_from and price_to are
\* built by the same expression as description)
C25_StoredFieldsKept ==
  [][ApplyServices =>
       \A sl \in DOMAIN services :
         (services[sl].present /\ services[sl].description # NULL)
           => services'[sl].description # NULL]_vars


\* the key of a name when case, diacritics, whitespace and a leading
\* "Klasický" are set aside
KeyWithoutAdjective(name) ==
  CASE name \in {"Pánský strih", "pánský strih", "Pánský  strih",
                 "Klasický pánský strih"} -> "pansky strih"
    [] name = "Pánský strih *"            -> "pansky strih *"
    [] name = "Barvení"                   -> "barveni"
    [] OTHER                              -> ""

SameButForAdjective(a, b) ==
  KeyWithoutAdjective(a) # "" /\ KeyWithoutAdjective(a) = KeyWithoutAdjective(b)

NamedAlike(list, name) ==
  {i \in 1..Len(list) : SameButForAdjective(list[i].name, name)}

MergedIntoOne(d, l) ==
  /\ normalizeServiceNameForComparison(d.name)
       = normalizeServiceNameForComparison(l.name)
  /\ Cardinality(NamedAlike(out.services, d.name)) = 1

\* C28: a DOM service and an oracle service whose names differ only in letter
\* case, diacritics, whitespace or a leading "Klasický" have the same merge
\* key and are imported as one record.
C28_SameMergeKey ==
  fn = "services:done" =>
    \A i \in 1..Len(out.dom) : \A j \in 1..Len(out.llm) :
      SameButForAdjective(out.dom[i].name, out.llm[j].name)
        => MergedIntoOne(out.dom[i], out.llm[j])

\* the same for the oracle's names that carry no adjective
SameMergeKeyNoAdjective ==
  fn = "services:done" =>
    \A i \in 1..Len(out.dom) : \A j \in 1..Len(out.llm) :
      (/\ SameButForAdjective(out.dom[i].name, out.llm[j].name)
       /\ \A k \in 1..Len(out.llm) : out.llm[k].name # "Klasický pánský strih")
        => MergedIntoOne(out.dom[i], out.llm[j])

\* the tasks of rest stand in q one after the other, in their order, behind
\* the position i
BehindInOrder(q, i, rest) ==
  \E k \in i..(Len(q) - Len(rest)) : SubSeq(q, k + 1, k + Len(rest)) = rest

\* the tasks that wait on when this step has taken its task, if it takes one
Waiting == IF Len(dequeued') > Len(dequeued) THEN Tail(queue) ELSE queue

\* of two links of one page of the link farm, l is queued before m
QueuedEarlier(l, m) ==
  /\ cfg.site = "farm"
  /\ l.page = m.page
  /\ \E a, b \in 1..(maxLinksPerPage + 1) :
       /\ a < b
       /\ FarmAnchors(l.page)[a].url = l.url
       /\ FarmAnchors(l.page)[b].url = m.url

\* C29: a priority link queued by link discovery stands in front of every
\* task that was waiting when it was queued (seeds, normal links and earlier
\* priority links), and no step changes the order of the waiting tasks or
\* takes another task than the first, so it is dequeued before each of them.
C29_PriorityBeforeWaiting ==
  [][/\ \A l \in discLog' \ discLog :
          l.prio =>
            \E i \in 1..Len(queue') :
              /\ queue'[i].url = l.url
              /\ queue'[i].fromPriority
              /\ BehindInOrder(queue', i, Waiting)
     /\ \A l, m \in discLog' \ discLog :
          (l.prio /\ m.prio /\ QueuedEarlier(l, m))
            => \E i, j \in 1..Len(queue') :
                 /\ i < j
                 /\ queue'[i].url = m.url
                 /\ queue'[j].url = l.url
     /\ BehindInOrder(queue', 0, Waiting)
     /\ Len(dequeued') > Len(dequeued) =>
          dequeued' = Append(dequeued, normalizeUrl(Head(queue).url))]_vars

\* a priority link of a page with several has been dequeued while a seed,
\* which waited when it was queued, still waits
C29_Witness ==
  \E p \in discLog :
    /\ p.prio
    /\ InSeq(dequeued, p.url)
    /\ \E q \in discLog : q.prio /\ q.page = p.page /\ q.url # p.url
    /\ \E i \in 1..Len(queue) : \A l \in discLog : l.url # queue[i].url


\* C30: when the crawl step of the import fails, every kb_pages row the
\* source had before the import is still stored.
C30_OldRowsKeptOnFailure ==
  [][ImportCrawlFailed =>
       \A i \in 1..Len(before) : InSeq(crawledPages', before[i])]_vars

====
